---- MODULE Spec2Model ----
(***************************************************************************)
(* wt - git worktree manager.  A model of the environment-update engine    *)
(* (src/src/environment-updater.ts), the index resolver                    *)
(* (GitManager.getWorktreeIndex), the worktree lifecycle commands          *)
(* (WorktreeManager in src/src/cli.ts) and the configuration parser        *)
(* (ConfigLoader).                                                         *)
(*                                                                         *)
(* Text is modelled at token granularity: a line of a file is a sequence   *)
(* of string tokens, the content of a file is the sequence of the lines    *)
(* that content.split('\n') yields (so the empty string is one empty       *)
(* line), and a template is a sequence of tokens some of which are         *)
(* {{...}} placeholders.  The line "API_PORT=3010" is                      *)
(* <<"API_PORT", "=", "3010">>.                                            *)
(***************************************************************************)
EXTENDS Integers, Sequences, FiniteSets, TLC

VARIABLES
    conf,       \* the Config that .wt.conf of the main worktree parses to
    wtList,     \* `git worktree list`: directory basenames, primary first
    branches,   \* the local branches (refs/heads/*)
    fsys,       \* directory basename -> Dir, for every directory on disk
    log,        \* collaborator calls made by the last command, in order
    lastErr,    \* "" or the error the last command threw
    lastCmd,    \* the last command and its arguments
    runs        \* the worktree directory after each update of UpdateTarget

vars == <<conf, wtList, branches, fsys, log, lastErr, lastCmd, runs>>

(***************************************************************************)
(* JavaScript numbers: an integer or NaN.                                  *)
(***************************************************************************)
Num(n) == [nan |-> FALSE, n |-> n]

NaN == [nan |-> TRUE, n |-> 0]

JsAdd(x, y) == IF x.nan \/ y.nan THEN NaN ELSE Num(x.n + y.n)

JsTruthy(x) == ~x.nan /\ x.n # 0

JsToString(x) == IF x.nan THEN "NaN" ELSE ToString(x.n)

(***************************************************************************)
(* The file system of one worktree directory.                              *)
(***************************************************************************)
EnvPath == ".env"

SamplePath == ".env.sample"

AppPath == "config/app.env"

GitIgnorePath == ".gitignore"

Paths == {EnvPath, SamplePath, AppPath, GitIgnorePath}

RootDir == "."

ConfigDir == "config"

FilesUnder(d) == IF d = ConfigDir THEN {AppPath} ELSE {}

ParentOf(p) == IF p = AppPath THEN ConfigDir ELSE RootDir

NoFile == [exists |-> FALSE, lines |-> <<>>]

FileOf(lines) == [exists |-> TRUE, lines |-> lines]

\* '' read back and split at '\n' is one empty line
EmptyContent == << <<>> >>

EmptyDir == [files |-> [p \in Paths |-> NoFile], subdirs |-> {RootDir}]

pathExists(dir, p) == dir.files[p].exists

\* fs.ensureFile: creates the parent directories and an empty file
ensureFile(dir, p) ==
    IF pathExists(dir, p) THEN dir
    ELSE [files |-> [dir.files EXCEPT ![p] = FileOf(EmptyContent)],
          subdirs |-> dir.subdirs \cup {ParentOf(p)}]

readFile(dir, p) == dir.files[p].lines

\* fs.writeFile: whole-file write, creating the file
writeFile(dir, p, content) ==
    [dir EXCEPT !.files[p] = FileOf(content)]

\* mutant: the payload is appended without the leading '\n'
appendFile_noNewline(dir, p, payload) ==
    [dir EXCEPT !.files[p] =
        FileOf(IF pathExists(dir, p)
               THEN SubSeq(readFile(dir, p), 1, Len(readFile(dir, p)) - 1)
                    \o <<readFile(dir, p)[Len(readFile(dir, p))] \o payload>>
               ELSE <<payload>>)]

\* fs.appendFile(p, '\n' + payload): the payload becomes a new last line; a
\* file that did not exist starts as the empty string
appendFile(dir, p, payload) ==
    [dir EXCEPT !.files[p] =
        FileOf((IF pathExists(dir, p) THEN readFile(dir, p) ELSE EmptyContent)
               \o <<payload>>)]

\* the state threaded through the steps of one command: the directory being
\* written, the calls made so far and the error thrown ("" for none)
Call(op, arg) == <<op, arg>>

Env(dir, calls, err) == [dir |-> dir, log |-> calls, err |-> err]

(***************************************************************************)
(* Configuration (Config of config-loader).  portMappings and              *)
(* containerNames are kept as sequences of entries: Object.entries walks   *)
(* them in insertion order.                                                *)
(***************************************************************************)
HasVar(mappings, v) == \E i \in 1..Len(mappings) : mappings[i].name = v

\* portMappings[varName]; callers test HasVar first (undefined otherwise)
PortOf(mappings, v) ==
    mappings[CHOOSE i \in 1..Len(mappings) : mappings[i].name = v].port

PhName == "{{WORKTREE_NAME}}"

PhIndex == "{{WORKTREE_INDEX}}"

PhPort(v) == "{{" \o v \o "}}"

MapSeq(s, F(_)) == [i \in 1..Len(s) |-> F(s[i])]

\* result.replace(/\{\{portVar\}\}/g, newPort) for each entry in turn
RECURSIVE substitutePorts(_, _, _, _)
substitutePorts(result, mappings, i, portOffset) ==
    IF i > Len(mappings) THEN result
    ELSE LET newPort == JsAdd(mappings[i].port, Num(portOffset))
             ph == PhPort(mappings[i].name)
         IN substitutePorts(
                MapSeq(result, LAMBDA t : IF t = ph THEN JsToString(newPort) ELSE t),
                mappings, i + 1, portOffset)

\* mutant: the port placeholders are replaced before the name and the index
substituteTemplate_portsFirst(template, worktreeName, worktreeIndex, portOffset, mappings) ==
    LET r0 == substitutePorts(template, mappings, 1, portOffset)
        r1 == MapSeq(r0, LAMBDA t : IF t = PhName THEN worktreeName ELSE t)
    IN MapSeq(r1, LAMBDA t : IF t = PhIndex THEN ToString(worktreeIndex) ELSE t)

substituteTemplate(template, worktreeName, worktreeIndex, portOffset, mappings) ==
    LET r1 == MapSeq(template, LAMBDA t : IF t = PhName THEN worktreeName ELSE t)
        r2 == MapSeq(r1, LAMBDA t : IF t = PhIndex THEN ToString(worktreeIndex) ELSE t)
    IN substitutePorts(r2, mappings, 1, portOffset)

(***************************************************************************)
(* KEY=value upserts.                                                      *)
(***************************************************************************)
\* new RegExp(`^${varName}=.*$`, 'gm') against one line
LineAssigns(line, varName) ==
    Len(line) >= 2 /\ line[1] = varName /\ line[2] = "="

\* mutant: the line is appended whether or not the variable has a line
upsertLine_alwaysAppend(content, varName, value) ==
    Append(content, <<varName, "=">> \o value)

\* mutant: the lines of the variable are dropped and the new line goes last
upsertLine_moveToEnd(content, varName, value) ==
    Append(SelectSeq(content, LAMBDA l : ~LineAssigns(l, varName)),
           <<varName, "=">> \o value)

\* mutant: a regular expression without the g flag rewrites the first
\* matching line only
upsertLine_firstOnly(content, varName, value) ==
    LET newLine == <<varName, "=">> \o value
        matches == {i \in 1..Len(content) : LineAssigns(content[i], varName)}
    IN IF matches # {}
       THEN [i \in 1..Len(content) |->
                IF i \in matches /\ \A j \in matches : i <= j
                THEN newLine ELSE content[i]]
       ELSE Append(content, newLine)

\* regex.test(content) ? content.replace(regex, line) : content + '\n' + line
upsertLine(content, varName, value) ==
    LET newLine == <<varName, "=">> \o value
    IN IF \E i \in 1..Len(content) : LineAssigns(content[i], varName)
       THEN [i \in 1..Len(content) |->
                IF LineAssigns(content[i], varName) THEN newLine ELSE content[i]]
       ELSE Append(content, newLine)

\* varSpec.split(',').map(trim)
splitVars(varSpec) == SelectSeq(varSpec, LAMBDA t : t # ",")

\* mutant: no `if (basePort)`: undefined + offset is NaN
RECURSIVE envVarsLoop_noGuard(_, _, _, _, _)
envVarsLoop_noGuard(content, varNames, i, portOffset, mappings) ==
    IF i > Len(varNames) THEN content
    ELSE LET varName == varNames[i]
             newPort == IF HasVar(mappings, varName)
                        THEN JsAdd(PortOf(mappings, varName), Num(portOffset))
                        ELSE NaN
         IN envVarsLoop_noGuard(
                upsertLine(content, varName, <<JsToString(newPort)>>),
                varNames, i + 1, portOffset, mappings)

RECURSIVE envVarsLoop(_, _, _, _, _)
envVarsLoop(content, varNames, i, portOffset, mappings) ==
    IF i > Len(varNames) THEN content
    ELSE LET varName == varNames[i]
             known == HasVar(mappings, varName) /\ JsTruthy(PortOf(mappings, varName))
             newPort == JsAdd(PortOf(mappings, varName), Num(portOffset))
         IN envVarsLoop(
                IF known THEN upsertLine(content, varName, <<JsToString(newPort)>>)
                ELSE content,
                varNames, i + 1, portOffset, mappings)

\* the shared head of the three upsert methods: pathExists, ensureFile when
\* the file is missing, readFile
openForUpsert(u, p) ==
    LET existed == pathExists(u.dir, p)
    IN Env(ensureFile(u.dir, p),
           u.log \o <<Call("pathExists", p)>>
                 \o (IF existed THEN <<>> ELSE <<Call("ensureFile", p)>>)
                 \o <<Call("readFile", p)>>,
           u.err)

updateEnvVars(u, filePath, varSpec, portOffset, mappings) ==
    LET o == openForUpsert(u, filePath)
        content == envVarsLoop(readFile(o.dir, filePath), splitVars(varSpec), 1,
                               portOffset, mappings)
    IN Env(writeFile(o.dir, filePath, content),
           o.log \o <<Call("writeFile", filePath)>>, o.err)

\* mutant: a variable that already has a line keeps it
RECURSIVE portVariablesLoop_onlyMissing(_, _, _, _)
portVariablesLoop_onlyMissing(content, mappings, i, portOffset) ==
    IF i > Len(mappings) THEN content
    ELSE LET newPort == JsAdd(mappings[i].port, Num(portOffset))
         IN portVariablesLoop_onlyMissing(
                IF \E j \in 1..Len(content) : LineAssigns(content[j], mappings[i].name)
                THEN content
                ELSE upsertLine(content, mappings[i].name, <<JsToString(newPort)>>),
                mappings, i + 1, portOffset)

RECURSIVE portVariablesLoop(_, _, _, _)
portVariablesLoop(content, mappings, i, portOffset) ==
    IF i > Len(mappings) THEN content
    ELSE LET newPort == JsAdd(mappings[i].port, Num(portOffset))
         IN portVariablesLoop(
                upsertLine(content, mappings[i].name, <<JsToString(newPort)>>),
                mappings, i + 1, portOffset)

updatePortVariables(u, mappings, portOffset) ==
    LET o == openForUpsert(u, EnvPath)
        content == portVariablesLoop(readFile(o.dir, EnvPath), mappings, 1, portOffset)
    IN Env(writeFile(o.dir, EnvPath, content),
           o.log \o <<Call("writeFile", EnvPath)>>, o.err)

\* mutant: the template is rendered with an offset of 10 per index
RECURSIVE containerNamesLoop_shifted(_, _, _, _, _, _)
containerNamesLoop_shifted(content, names, i, worktreeName, worktreeIndex, mappings) ==
    IF i > Len(names) THEN content
    ELSE LET containerName ==
                 substituteTemplate(names[i].template, worktreeName, worktreeIndex,
                                    worktreeIndex * 10, mappings)
         IN containerNamesLoop_shifted(
                upsertLine(content, names[i].name, containerName),
                names, i + 1, worktreeName, worktreeIndex, mappings)

RECURSIVE containerNamesLoop(_, _, _, _, _, _)
containerNamesLoop(content, names, i, worktreeName, worktreeIndex, mappings) ==
    IF i > Len(names) THEN content
    ELSE LET containerName == substituteTemplate(names[i].template, worktreeName,
                                                 worktreeIndex, 0, mappings)
         IN containerNamesLoop(
                upsertLine(content, names[i].name, containerName),
                names, i + 1, worktreeName, worktreeIndex, mappings)

updateContainerNames(u, names, worktreeName, worktreeIndex, mappings) ==
    LET o == openForUpsert(u, EnvPath)
        content == containerNamesLoop(readFile(o.dir, EnvPath), names, 1,
                                      worktreeName, worktreeIndex, mappings)
    IN Env(writeFile(o.dir, EnvPath, content),
           o.log \o <<Call("writeFile", EnvPath)>>, o.err)

(***************************************************************************)
(* Index resolver (GitManager).  `git worktree list` is a sequence of      *)
(* directory basenames; a worktree made by createWorktree(name) lives in   *)
(* ../<project>-<name>.                                                    *)
(***************************************************************************)
ProjectName == "proj"

Names == {"a", "b", "c"}

WtDir(name) == ProjectName \o "-" \o name

\* path.basename(wtPath).replace(`${projectName}-`, '')
wtNameOf(basename) ==
    IF \E n \in Names : basename = WtDir(n)
    THEN CHOOSE n \in Names : basename = WtDir(n)
    ELSE basename

\* the first line of `git worktree list`
getMainWorktreeDir(list) == list[1]

\* mutant: the main worktree is counted like any other
RECURSIVE indexLoop_countsMain(_, _, _, _)
indexLoop_countsMain(list, i, index, worktreeName) ==
    IF i > Len(list) THEN index + 1
    ELSE IF wtNameOf(list[i]) = worktreeName
         THEN index + 1
         ELSE indexLoop_countsMain(list, i + 1, index + 1, worktreeName)

RECURSIVE indexLoop(_, _, _, _)
indexLoop(list, i, index, worktreeName) ==
    IF i > Len(list) THEN index + 1
    ELSE IF list[i] = getMainWorktreeDir(list)
         THEN indexLoop(list, i + 1, index, worktreeName)
         ELSE IF wtNameOf(list[i]) = worktreeName
              THEN index + 1
              ELSE indexLoop(list, i + 1, index + 1, worktreeName)

\* mutant: a 0-based index
getWorktreeIndex_zeroBased(list, worktreeName) ==
    indexLoop(list, 1, 0, worktreeName) - 1

getWorktreeIndex(list, worktreeName) == indexLoop(list, 1, 0, worktreeName)

\* mutant: the offset of the worktree before this one
calculatePortOffset_previous(list, worktreeName, increment) ==
    (getWorktreeIndex(list, worktreeName) - 1) * increment

calculatePortOffset(list, worktreeName, increment) ==
    getWorktreeIndex(list, worktreeName) * increment

\* this.git as one command sees it: what `git worktree list` prints, which
\* of the command's index resolutions is rejected by execa (0: none), and,
\* when another process adds or removes a worktree meanwhile, what the list
\* prints from resolution number changeAt on (0: the list stays as it is)
Git(list, failAt) ==
    [list |-> list, failAt |-> failAt, relisted |-> list, changeAt |-> 0]

GitChanging(list, relisted, changeAt) ==
    [list |-> list, failAt |-> 0, relisted |-> relisted, changeAt |-> changeAt]

\* what the k-th `git worktree list` of the command prints
listAt(git, k) ==
    IF git.changeAt # 0 /\ k >= git.changeAt THEN git.relisted ELSE git.list

GitCalls(calls) ==
    Cardinality({i \in 1..Len(calls) : calls[i][1] = "getWorktreeIndex"})

\* await this.git.getWorktreeIndex(worktreeName): the call is made, and it
\* throws when git fails
awaitWorktreeIndex(u, git, worktreeName) ==
    Env(u.dir, u.log \o <<Call("getWorktreeIndex", worktreeName)>>,
        IF u.err = "" /\ GitCalls(u.log) + 1 = git.failAt THEN "GitError" ELSE u.err)

(***************************************************************************)
(* File-update rules.                                                      *)
(***************************************************************************)
Absent == [has |-> FALSE, val |-> <<>>]

Present(toks) == [has |-> TRUE, val |-> toks]

\* search patterns that new RegExp(pattern, 'g') rejects
InvalidPatterns == {"("}

\* content.replace(new RegExp(pattern, 'g'), replacement) on one line, for a
\* pattern that is one literal token
RECURSIVE replaceTokens(_, _, _)
replaceTokens(line, pattern, replacement) ==
    IF line = <<>> THEN <<>>
    ELSE (IF Head(line) = pattern THEN replacement ELSE <<Head(line)>>)
         \o replaceTokens(Tail(line), pattern, replacement)

\* new RegExp(undefined, 'g') is /(?:)/g: it matches the empty string at
\* every position
RECURSIVE insertEverywhere(_, _)
insertEverywhere(line, replacement) ==
    IF line = <<>> THEN replacement
    ELSE replacement \o <<Head(line)>> \o insertEverywhere(Tail(line), replacement)

\* replaceInFile once the file is known to exist
replaceExisting(u, filePath, searchPattern, replacement, worktreeName, worktreeIndex, git, config) ==
    LET resolved == awaitWorktreeIndex(
                        Env(u.dir, u.log \o <<Call("readFile", filePath)>>, u.err),
                        git, worktreeName)
        calls == resolved.log
        content == readFile(u.dir, filePath)
        portOffset == calculatePortOffset(listAt(git, GitCalls(calls)),
                                          worktreeName,
                                          config.portOffsetIncrement)
    IN IF resolved.err # ""
       THEN \* calculatePortOffset rejects
            resolved
       ELSE IF ~replacement.has
       THEN \* substituteTemplate(undefined, ...): undefined.replace
            Env(u.dir, calls, "TypeError")
       ELSE IF searchPattern.has /\ searchPattern.val[1] \in InvalidPatterns
       THEN Env(u.dir, calls, "SyntaxError")
       ELSE LET substitutedReplacement ==
                    substituteTemplate(replacement.val, worktreeName,
                                       worktreeIndex, portOffset,
                                       config.portMappings)
                replaced ==
                    IF searchPattern.has
                    THEN MapSeq(content, LAMBDA line :
                             replaceTokens(line, searchPattern.val[1],
                                           substitutedReplacement))
                    ELSE MapSeq(content, LAMBDA line :
                             insertEverywhere(line, substitutedReplacement))
            IN Env(writeFile(u.dir, filePath, replaced),
                   calls \o <<Call("writeFile", filePath)>>, u.err)

\* mutant: a missing file is created first, as the env_vars strategy does
replaceInFile_ensuresFile(u, filePath, searchPattern, replacement, worktreeName, worktreeIndex, git, config) ==
    replaceExisting(openForUpsert(u, filePath), filePath, searchPattern,
                    replacement, worktreeName, worktreeIndex, git, config)

replaceInFile(u, filePath, searchPattern, replacement, worktreeName, worktreeIndex, git, config) ==
    LET checked == Env(u.dir, u.log \o <<Call("pathExists", filePath)>>, u.err)
    IN IF ~pathExists(u.dir, filePath)
       THEN checked
       ELSE replaceExisting(checked, filePath, searchPattern, replacement,
                            worktreeName, worktreeIndex, git, config)

processFileUpdate(u, update, worktreeName, worktreeIndex, portOffset, git, config) ==
    CASE update.updateType = "env_vars" ->
            updateEnvVars(u, update.filePath, update.spec, portOffset,
                          config.portMappings)
      [] update.updateType = "replace" ->
            replaceInFile(u, update.filePath, update.searchPattern,
                          update.replacement, worktreeName, worktreeIndex,
                          git, config)
      [] update.updateType = "append" ->
            LET content == substituteTemplate(update.spec, worktreeName,
                                              worktreeIndex, portOffset,
                                              config.portMappings)
                calls == u.log \o <<Call("appendFile", update.filePath)>>
            IN IF ParentOf(update.filePath) \in u.dir.subdirs
               THEN Env(appendFile(u.dir, update.filePath, content), calls, u.err)
               ELSE \* open(2) with O_APPEND|O_CREAT in a missing directory
                    Env(u.dir, calls, "ENOENT")
      [] OTHER -> u

\* for (const update of fileUpdates) await processFileUpdate(...): the first
\* rule that throws ends the loop and the call
RECURSIVE fileUpdatesLoop(_, _, _, _, _, _, _)
fileUpdatesLoop(u, i, worktreeName, worktreeIndex, portOffset, git, config) ==
    IF i > Len(config.fileUpdates) \/ u.err # "" THEN u
    ELSE fileUpdatesLoop(
             processFileUpdate(u, config.fileUpdates[i], worktreeName,
                               worktreeIndex, portOffset, git, config),
             i + 1, worktreeName, worktreeIndex, portOffset, git, config)

\* mutant: the two upserts into the primary environment file come before the
\* file-update rules
updateEnvironmentFiles_upsertsFirst(u, worktreeName, git, config) ==
    LET worktreeIndex == getWorktreeIndex(listAt(git, 1), worktreeName)
        portOffset == calculatePortOffset(listAt(git, 2), worktreeName,
                                          config.portOffsetIncrement)
        first == awaitWorktreeIndex(u, git, worktreeName)
        u0 == IF first.err # "" THEN first
              ELSE awaitWorktreeIndex(first, git, worktreeName)
        u1 == IF u0.err = "" /\ Len(config.portMappings) > 0
              THEN updatePortVariables(u0, config.portMappings, portOffset)
              ELSE u0
        u2 == IF u1.err = "" /\ Len(config.containerNames) > 0
              THEN updateContainerNames(u1, config.containerNames, worktreeName,
                                        worktreeIndex, config.portMappings)
              ELSE u1
    IN fileUpdatesLoop(u2, 1, worktreeName, worktreeIndex, portOffset, git, config)

updateEnvironmentFiles(u, worktreeName, git, config) ==
    LET worktreeIndex == getWorktreeIndex(listAt(git, 1), worktreeName)
        portOffset == calculatePortOffset(listAt(git, 2), worktreeName,
                                          config.portOffsetIncrement)
        first == awaitWorktreeIndex(u, git, worktreeName)
        u0 == IF first.err # "" THEN first
              ELSE awaitWorktreeIndex(first, git, worktreeName)
        u1 == fileUpdatesLoop(u0, 1, worktreeName, worktreeIndex, portOffset,
                              git, config)
        u2 == IF u1.err = "" /\ Len(config.portMappings) > 0
              THEN updatePortVariables(u1, config.portMappings, portOffset)
              ELSE u1
        u3 == IF u2.err = "" /\ Len(config.containerNames) > 0
              THEN updateContainerNames(u2, config.containerNames, worktreeName,
                                        worktreeIndex, config.portMappings)
              ELSE u2
    IN u3

(***************************************************************************)
(* Configurations and files the checks draw from.                          *)
(***************************************************************************)
Rule(filePath, updateType, spec) ==
    [filePath |-> filePath, updateType |-> updateType, spec |-> spec,
     searchPattern |-> Absent, replacement |-> Absent]

\* a FILE_UPDATES item path|replace|searchPattern|replacement
ReplaceRule(filePath, pattern, replacement) ==
    [filePath |-> filePath, updateType |-> "replace", spec |-> replacement,
     searchPattern |-> Present(<<pattern>>), replacement |-> Present(replacement)]

\* mutant: the spec of a replace rule stays the third field
parseFileUpdate_specIsThirdField(parts) ==
    IF parts[2] = "replace" /\ Len(parts) >= 4
    THEN [ReplaceRule(parts[1], parts[3][1], parts[4]) EXCEPT !.spec = parts[3]]
    ELSE Rule(parts[1], parts[2], parts[3])

\* one FILE_UPDATES item, split at '|': the path, the type, and the third
\* and fourth fields as token sequences
parseFileUpdate(parts) ==
    IF parts[2] = "replace" /\ Len(parts) >= 4
    THEN ReplaceRule(parts[1], parts[3][1], parts[4])
    ELSE Rule(parts[1], parts[2], parts[3])

\* the FILE_UPDATES block: items of fewer than three fields are dropped
parseFileUpdates(items) ==
    MapSeq(SelectSeq(items, LAMBDA parts : Len(parts) >= 3), parseFileUpdate)

Config(increment, mappings, names, updates) ==
    [startContainers |-> TRUE, portOffsetIncrement |-> increment,
     envFiles |-> <<>>, portMappings |-> mappings, containerNames |-> names,
     fileUpdates |-> updates]

BaseApi == 3000

BaseClient == 3001

DefaultIncrement == 10

Mapping(name, port) == [name |-> name, port |-> port]

Mappings2 == <<Mapping("API_PORT", Num(BaseApi)), Mapping("CLIENT_PORT", Num(BaseClient))>>

\* "ZERO_PORT:0" and "BAD_PORT:x" are items parseConfig stores
MappingsOdd ==
    <<Mapping("API_PORT", Num(BaseApi)), Mapping("ZERO_PORT", Num(0)),
      Mapping("BAD_PORT", NaN)>>

ContainerName(name, template) == [name |-> name, template |-> template]

Names1 ==
    <<ContainerName("DB_CONTAINER", <<"myapp-", PhName, "-db">>),
      ContainerName("API_CONTAINER", <<"myapp-", PhIndex, "-api">>)>>

\* a template that embeds a port placeholder as well
NamesPort ==
    <<ContainerName("API_CONTAINER", <<"api-", PhIndex, "-", PhPort("API_PORT")>>)>>

RuleEnvApp == Rule(AppPath, "env_vars", <<"API_PORT", ",", "OTHER">>)

RuleEnvEnv == Rule(EnvPath, "env_vars", <<"CLIENT_PORT", ",", "API_PORT">>)

RuleEnvOdd == Rule(AppPath, "env_vars", <<"ZERO_PORT", ",", "BAD_PORT", ",", "OTHER">>)

\* the primary environment file, with the variables of MappingsOdd
RuleEnvOddEnv ==
    Rule(EnvPath, "env_vars", <<"API_PORT", ",", "ZERO_PORT", ",", "BAD_PORT">>)

RuleEnvUnknown == Rule(AppPath, "env_vars", <<"OTHER", ",", "MISSING">>)

RuleReplace == ReplaceRule(AppPath, "HOST", <<"host-", PhName>>)

\* a replacement that shows the index and a port side by side
RuleReplacePort ==
    ReplaceRule(AppPath, "HOST", <<"host-", PhIndex, ":", PhPort("API_PORT")>>)

RuleReplaceGrow == ReplaceRule(AppPath, "myapp", <<"myapp", "-", PhName>>)

\* a search pattern that is not a regular expression
RuleReplaceBad == ReplaceRule(AppPath, "(", <<"x">>)

\* "config/app.env|replace|HOST", "config/app.env|env_vars|API_PORT,OTHER"
\* and "x|append"
ItemReplace3 == <<AppPath, "replace", <<"HOST">>>>

ItemEnvApp == <<AppPath, "env_vars", <<"API_PORT", ",", "OTHER">>>>

ItemShort == <<AppPath, "append">>

RuleAppend == Rule(AppPath, "append", <<"port:", PhPort("API_PORT"), PhName>>)

Assign(v, value) == <<v, "=", value>>

EnvFiles ==
    { NoFile,
      FileOf(EmptyContent),
      FileOf(<<Assign("API_PORT", "3000"), Assign("CLIENT_PORT", "3001"), <<>> >>),
      FileOf(<<<<"#", "ports">>, Assign("API_PORT", "1"), Assign("OTHER", "5"),
               Assign("API_PORT", "2"), Assign("DB_CONTAINER", "myapp-db")>>) }

AppFiles ==
    { NoFile,
      FileOf(<<<<"HOST", "myapp">>, Assign("API_PORT", "3000"), Assign("OTHER", "7")>>) }

DirOf(envFile, appFile, subdirs) ==
    [files |-> [p \in Paths |->
                    IF p = EnvPath THEN envFile
                    ELSE IF p = AppPath THEN appFile ELSE NoFile],
     subdirs |-> subdirs]

\* a file lives in a directory that exists
Dirs ==
    { DirOf(e, a, sd) : e \in EnvFiles, a \in AppFiles,
                        sd \in {{RootDir}, {RootDir, ConfigDir}} }
    \ { DirOf(e, a, {RootDir}) : e \in EnvFiles, a \in AppFiles \ {NoFile} }

(***************************************************************************)
(* SpecUpdate: updateEnvironmentFiles and its parts, applied up to MaxRuns *)
(* times in a row to the directory of worktree UpdateTarget.               *)
(***************************************************************************)
MaxRuns == 2

UpdateTarget == "b"

UpdateConfigs ==
    { Config(DefaultIncrement, Mappings2, <<>>, <<RuleEnvApp>>),
      Config(DefaultIncrement, Mappings2, Names1, <<RuleEnvEnv, RuleReplace>>),
      Config(DefaultIncrement, Mappings2, <<>>, <<RuleAppend>>),
      Config(1, Mappings2, Names1, <<RuleReplaceGrow>>),
      Config(1, <<>>, Names1, <<>>),
      Config(DefaultIncrement, MappingsOdd, <<>>, <<RuleEnvOdd, RuleEnvApp>>),
      Config(DefaultIncrement, Mappings2, <<>>, <<RuleEnvUnknown>>),
      Config(DefaultIncrement, Mappings2, NamesPort, <<>>),
      Config(DefaultIncrement, Mappings2, Names1, <<RuleReplaceBad, RuleEnvApp>>),
      Config(DefaultIncrement, Mappings2, <<>>,
             parseFileUpdates(<<ItemShort, ItemReplace3, ItemEnvApp>>)),
      Config(DefaultIncrement, MappingsOdd, <<>>, <<RuleReplacePort, RuleEnvOddEnv>>) }

UpdateLists ==
    { <<ProjectName, WtDir("a"), WtDir(UpdateTarget)>>,
      <<ProjectName, WtDir(UpdateTarget)>> }

\* the index resolutions of one updateEnvironmentFiles that may be the one
\* that fails: the two at its head and those of its replace rules
MaxFailAt == 3

NoGitFailure == 0

OpUpdate(failAt) == [kind |-> "update", i |-> 0, failAt |-> failAt, changeAt |-> 0]

\* an updateEnvironmentFiles during which the worktree list changes
OpRaced(changeAt) ==
    [kind |-> "raced", i |-> 0, failAt |-> NoGitFailure, changeAt |-> changeAt]

OpRule(i) == [kind |-> "rule", i |-> i, failAt |-> NoGitFailure, changeAt |-> 0]

OpPorts == [kind |-> "ports", i |-> 0, failAt |-> NoGitFailure, changeAt |-> 0]

OpNames == [kind |-> "names", i |-> 0, failAt |-> NoGitFailure, changeAt |-> 0]

InitUpdate ==
    /\ conf \in UpdateConfigs
    /\ wtList \in UpdateLists
    /\ branches = {wtNameOf(wtList[i]) : i \in 2..Len(wtList)}
    /\ \E d \in Dirs : fsys = [w \in {WtDir(UpdateTarget)} |-> d]
    /\ log = <<>>
    /\ lastErr = ""
    /\ lastCmd = <<"none">>
    /\ runs = <<>>

\* one application, recorded with the directory before and after it;
\* relisted is the worktree list once it is over
Recorded(op, u, relisted) ==
    /\ fsys' = [fsys EXCEPT ![WtDir(UpdateTarget)] = u.dir]
    /\ log' = u.log
    /\ lastErr' = u.err
    /\ lastCmd' = <<op.kind, UpdateTarget>>
    /\ runs' = Append(runs,
                      [op |-> op, before |-> fsys[WtDir(UpdateTarget)],
                       after |-> u.dir, log |-> u.log, err |-> u.err,
                       list |-> wtList,
                       index |-> getWorktreeIndex(wtList, UpdateTarget),
                       offset |-> calculatePortOffset(wtList, UpdateTarget,
                                                      conf.portOffsetIncrement)])
    /\ wtList' = relisted
    /\ branches' = {wtNameOf(relisted[i]) : i \in 2..Len(relisted)}
    /\ UNCHANGED conf

Record(op, u) == Recorded(op, u, wtList)

Start == Env(fsys[WtDir(UpdateTarget)], <<>>, "")

RunUpdate(failAt) ==
    /\ Len(runs) < MaxRuns
    /\ Record(OpUpdate(failAt),
              updateEnvironmentFiles(Start, UpdateTarget, Git(wtList, failAt), conf))

\* the same call while another process adds or removes a worktree: from its
\* resolution number changeAt on, `git worktree list` prints the other list
RunUpdateRaced(relisted, changeAt) ==
    /\ Len(runs) < MaxRuns
    /\ relisted # wtList
    /\ Recorded(OpRaced(changeAt),
                updateEnvironmentFiles(Start, UpdateTarget,
                                       GitChanging(wtList, relisted, changeAt), conf),
                relisted)

RunRule(i) ==
    /\ Len(runs) < MaxRuns
    /\ Record(OpRule(i),
              processFileUpdate(Start, conf.fileUpdates[i], UpdateTarget,
                                getWorktreeIndex(wtList, UpdateTarget),
                                calculatePortOffset(wtList, UpdateTarget,
                                                    conf.portOffsetIncrement),
                                Git(wtList, NoGitFailure), conf))

RunPorts ==
    /\ Len(runs) < MaxRuns
    /\ Len(conf.portMappings) > 0
    /\ Record(OpPorts,
              updatePortVariables(Start, conf.portMappings,
                                  calculatePortOffset(wtList, UpdateTarget,
                                                      conf.portOffsetIncrement)))

RunNames ==
    /\ Len(runs) < MaxRuns
    /\ Len(conf.containerNames) > 0
    /\ Record(OpNames,
              updateContainerNames(Start, conf.containerNames, UpdateTarget,
                                   getWorktreeIndex(wtList, UpdateTarget),
                                   conf.portMappings))

NextUpdate ==
    \/ \E failAt \in 0..MaxFailAt : RunUpdate(failAt)
    \/ \E i \in 1..Len(conf.fileUpdates) : RunRule(i)
    \/ RunPorts
    \/ RunNames

SpecUpdate == InitUpdate /\ [][NextUpdate]_vars

\* SpecRace: the calls of updateEnvironmentFiles during which another
\* process adds or removes a worktree
NextRace ==
    \E relisted \in UpdateLists, changeAt \in 1..MaxFailAt :
        RunUpdateRaced(relisted, changeAt)

SpecRace == InitUpdate /\ [][NextRace]_vars

(***************************************************************************)
(* Properties of SpecUpdate.                                               *)
(***************************************************************************)
RunIds == 1..Len(runs)

RuleOf(r) == conf.fileUpdates[r.op.i]

IsRuleRun(r, updateType) ==
    r.op.kind = "rule" /\ RuleOf(r).updateType = updateType

\* what readFile yields once the upsert has made sure the file exists
ContentBefore(r, p) ==
    IF pathExists(r.before, p) THEN readFile(r.before, p) ELSE EmptyContent

ContentAfter(r, p) == readFile(r.after, p)

AssignCount(content, v) ==
    Cardinality({i \in 1..Len(content) : LineAssigns(content[i], v)})

\* the variables of an env_vars rule that have a base port of the data model
ValidVars(rule) ==
    {v \in {splitVars(rule.spec)[i] : i \in 1..Len(splitVars(rule.spec))} :
        /\ HasVar(conf.portMappings, v)
        /\ ~PortOf(conf.portMappings, v).nan
        /\ PortOf(conf.portMappings, v).n \in 1..65535}

\* the variables of an env_vars rule that the port-mapping table does not hold
AbsentVars(rule) ==
    {v \in {splitVars(rule.spec)[i] : i \in 1..Len(splitVars(rule.spec))} :
        ~HasVar(conf.portMappings, v)}

ExpectedPortLine(v, index) ==
    <<v, "=", ToString(PortOf(conf.portMappings, v).n
                       + index * conf.portOffsetIncrement)>>

\* C2: the port offset of every run is index * increment, and the ports a
\* port-mapping upsert writes are base port + index * increment
C2_OffsetIsIndexTimesIncrement ==
    \A k \in RunIds :
        LET r == runs[k] IN
        /\ r.offset = r.index * conf.portOffsetIncrement
        /\ (r.index = 0 => r.offset = 0)
        /\ (r.op.kind \in {"update", "ports"} /\ r.err = "") =>
               \A i \in 1..Len(conf.portMappings) :
                   LET m == conf.portMappings[i] IN
                   ~m.port.nan =>
                       \E j \in 1..Len(ContentAfter(r, EnvPath)) :
                           ContentAfter(r, EnvPath)[j] = ExpectedPortLine(m.name, r.index)

C2_Witness ==
    \E k \in RunIds :
        /\ runs[k].op.kind = "update"
        /\ runs[k].err = ""
        /\ runs[k].index = 2
        /\ conf.portOffsetIncrement = DefaultIncrement
        /\ Len(conf.portMappings) > 0

AllEnvVars == \A i \in 1..Len(conf.fileUpdates) : conf.fileUpdates[i].updateType = "env_vars"

UpsertedVars(r) ==
    CASE r.op.kind = "rule" ->
            {v \in {splitVars(RuleOf(r).spec)[i] : i \in 1..Len(splitVars(RuleOf(r).spec))} :
                HasVar(conf.portMappings, v) /\ JsTruthy(PortOf(conf.portMappings, v))}
      [] r.op.kind = "ports" -> {conf.portMappings[i].name : i \in 1..Len(conf.portMappings)}
      [] r.op.kind = "names" -> {conf.containerNames[i].name : i \in 1..Len(conf.containerNames)}
      [] OTHER -> {}

UpsertPath(r) == IF r.op.kind = "rule" THEN RuleOf(r).filePath ELSE EnvPath

IsUpsertRun(r) ==
    \/ IsRuleRun(r, "env_vars")
    \/ r.op.kind \in {"ports", "names"}

SameUpsertTwice(k) ==
    /\ k > 1
    /\ IsUpsertRun(runs[k])
    /\ runs[k].op = runs[k - 1].op

\* C6 as stated: the second of two equal upserts changes nothing, and the
\* file then holds at most one VAR= line for each upserted variable
C6_SecondUpsertNoDuplicate ==
    \A k \in RunIds :
        SameUpsertTwice(k) =>
            /\ runs[k].after = runs[k - 1].after
            /\ \A v \in UpsertedVars(runs[k]) :
                   AssignCount(ContentAfter(runs[k], UpsertPath(runs[k])), v) <= 1

\* C6 amended: the second of two equal upserts changes nothing and adds no
\* line, and the file holds for each upserted variable as many VAR= lines
\* as before the first upsert, or one when it held none
C6_SecondUpsertAddsNothing ==
    \A k \in RunIds :
        SameUpsertTwice(k) =>
            LET p == UpsertPath(runs[k])
                c0 == ContentBefore(runs[k - 1], p)
                c1 == ContentAfter(runs[k - 1], p)
                c2 == ContentAfter(runs[k], p)
            IN /\ runs[k].after = runs[k - 1].after
               /\ Len(c2) = Len(c1)
               /\ \A v \in UpsertedVars(runs[k]) :
                      AssignCount(c2, v) =
                          IF AssignCount(c0, v) = 0 THEN 1 ELSE AssignCount(c0, v)

C6_Witness ==
    \E k \in RunIds :
        /\ SameUpsertTwice(k)
        /\ UpsertedVars(runs[k]) # {}
        /\ \E v \in UpsertedVars(runs[k]) :
               AssignCount(ContentBefore(runs[k - 1], UpsertPath(runs[k])), v) = 0
        /\ runs[k - 1].after # runs[k - 1].before

FirstAssign(content, v) ==
    CHOOSE i \in 1..Len(content) :
        /\ LineAssigns(content[i], v)
        /\ \A j \in 1..(i - 1) : ~LineAssigns(content[j], v)

\* C7: an env_vars rule rewrites in place the existing line of each of its
\* variables that has a base port, or appends the line when there is none;
\* every other line keeps its content and its position
C7_UpsertInPlaceOrAppend ==
    \A k \in RunIds :
        IsRuleRun(runs[k], "env_vars") =>
            LET r == runs[k]
                p == RuleOf(r).filePath
                b == ContentBefore(r, p)
                a == ContentAfter(r, p)
                K == ValidVars(RuleOf(r))
            IN /\ Len(a) >= Len(b)
               /\ \A i \in 1..Len(b) :
                      (\A v \in K : ~LineAssigns(b[i], v)) => a[i] = b[i]
               /\ \A v \in K :
                      IF AssignCount(b, v) > 0
                      THEN /\ a[FirstAssign(b, v)] = ExpectedPortLine(v, r.index)
                           /\ \A i \in (Len(b) + 1)..Len(a) : ~LineAssigns(a[i], v)
                      ELSE /\ Cardinality({i \in (Len(b) + 1)..Len(a) :
                                              LineAssigns(a[i], v)}) = 1
                           /\ \E i \in (Len(b) + 1)..Len(a) :
                                  a[i] = ExpectedPortLine(v, r.index)
               /\ \A i \in (Len(b) + 1)..Len(a) :
                      \E v \in K : AssignCount(b, v) = 0 /\ LineAssigns(a[i], v)

C7_Witness ==
    \E k \in RunIds :
        /\ IsRuleRun(runs[k], "env_vars")
        /\ LET r == runs[k]
               b == ContentBefore(r, RuleOf(r).filePath)
               K == ValidVars(RuleOf(r))
           IN /\ \E v \in K : AssignCount(b, v) > 0
              /\ \E i \in 1..Len(b) : b[i] # <<>> /\ \A v \in K : ~LineAssigns(b[i], v)
              /\ r.after # r.before

\* C8: an env_vars rule leaves alone every variable the port-mapping table
\* does not hold: no error, no line added for it, its lines unchanged, and
\* a rule with no usable variable leaves the content as it was
C8_AbsentVarIsNoOp ==
    \A k \in RunIds :
        IsRuleRun(runs[k], "env_vars") =>
            LET r == runs[k]
                p == RuleOf(r).filePath
                b == ContentBefore(r, p)
                a == ContentAfter(r, p)
            IN /\ r.err = ""
               /\ \A v \in AbsentVars(RuleOf(r)) :
                      \A i \in 1..Len(a) :
                          LineAssigns(a[i], v) => (i <= Len(b) /\ a[i] = b[i])
               /\ UpsertedVars(r) = {} => a = b

C8_Witness ==
    \E k \in RunIds :
        /\ IsRuleRun(runs[k], "env_vars")
        /\ LET r == runs[k]
               b == ContentBefore(r, RuleOf(r).filePath)
           IN /\ \E v \in AbsentVars(RuleOf(r)) : AssignCount(b, v) > 0
              /\ \E v \in AbsentVars(RuleOf(r)) : AssignCount(b, v) = 0
              /\ UpsertedVars(r) = {}

\* C9: a replace rule on a missing file only asks whether the file exists:
\* no file is created, read or written and nothing is thrown
C9_ReplaceMissingFileIsNoOp ==
    \A k \in RunIds :
        (/\ IsRuleRun(runs[k], "replace")
         /\ ~pathExists(runs[k].before, RuleOf(runs[k]).filePath))
        => /\ runs[k].after = runs[k].before
           /\ runs[k].err = ""
           /\ runs[k].log = <<Call("pathExists", RuleOf(runs[k]).filePath)>>

C9_Witness ==
    \E k \in RunIds :
        /\ IsRuleRun(runs[k], "replace")
        /\ ~pathExists(runs[k].before, RuleOf(runs[k]).filePath)
        /\ RuleOf(runs[k]).searchPattern.has

ExpectedToken(t, index) ==
    IF t = PhName THEN UpdateTarget
    ELSE IF t = PhIndex THEN ToString(index)
    ELSE IF \E i \in 1..Len(conf.portMappings) : t = PhPort(conf.portMappings[i].name)
    THEN LET m == conf.portMappings[CHOOSE i \in 1..Len(conf.portMappings) :
                                        t = PhPort(conf.portMappings[i].name)]
         IN JsToString(JsAdd(m.port, Num(index * conf.portOffsetIncrement)))
    ELSE t

ExpectedNewEnvVars(rule, index) ==
    LET listed == SelectSeq(splitVars(rule.spec), LAMBDA v : v \in ValidVars(rule))
    IN EmptyContent \o [i \in 1..Len(listed) |-> ExpectedPortLine(listed[i], index)]

\* C10: an env_vars or append rule on a missing file creates it and throws
\* nothing; append leaves '\n' + payload, env_vars one VAR=port line for
\* each listed variable with a base port, in list order
C10_MissingFileIsCreated ==
    \A k \in RunIds :
        LET r == runs[k] IN
        (/\ r.op.kind = "rule"
         /\ RuleOf(r).updateType \in {"env_vars", "append"}
         /\ ~pathExists(r.before, RuleOf(r).filePath))
        => /\ r.err = ""
           /\ pathExists(r.after, RuleOf(r).filePath)
           /\ IF RuleOf(r).updateType = "append"
              THEN ContentAfter(r, RuleOf(r).filePath) =
                       << <<>>, MapSeq(RuleOf(r).spec,
                                       LAMBDA t : ExpectedToken(t, r.index)) >>
              ELSE ContentAfter(r, RuleOf(r).filePath) =
                       ExpectedNewEnvVars(RuleOf(r), r.index)

\* the same, for a rule whose file is to lie in a directory that exists
C10_MissingFileIsCreatedInExistingDir ==
    \A k \in RunIds :
        LET r == runs[k] IN
        (/\ r.op.kind = "rule"
         /\ RuleOf(r).updateType \in {"env_vars", "append"}
         /\ ~pathExists(r.before, RuleOf(r).filePath)
         /\ (RuleOf(r).updateType = "append" =>
                ParentOf(RuleOf(r).filePath) \in r.before.subdirs))
        => /\ r.err = ""
           /\ pathExists(r.after, RuleOf(r).filePath)
           /\ IF RuleOf(r).updateType = "append"
              THEN ContentAfter(r, RuleOf(r).filePath) =
                       << <<>>, MapSeq(RuleOf(r).spec,
                                       LAMBDA t : ExpectedToken(t, r.index)) >>
              ELSE ContentAfter(r, RuleOf(r).filePath) =
                       ExpectedNewEnvVars(RuleOf(r), r.index)

C10_Witness ==
    \E k \in RunIds :
        /\ IsRuleRun(runs[k], "append")
        /\ ~pathExists(runs[k].before, RuleOf(runs[k]).filePath)
        /\ pathExists(runs[k].after, RuleOf(runs[k]).filePath)
        /\ runs[k].err = ""

\* the increments a configuration may be given instead of its own
Increments == {1, 2, DefaultIncrement}

\* the lines of the primary environment file that assign v
AssignedLines(dir, v) ==
    IF pathExists(dir, EnvPath)
    THEN {readFile(dir, EnvPath)[i] : i \in
             {j \in 1..Len(readFile(dir, EnvPath)) :
                 LineAssigns(readFile(dir, EnvPath)[j], v)}}
    ELSE {}

\* a template token rendered with the name, the index and unshifted ports
ExpectedNameToken(t, index) ==
    IF t = PhName THEN UpdateTarget
    ELSE IF t = PhIndex THEN ToString(index)
    ELSE IF \E i \in 1..Len(conf.portMappings) : t = PhPort(conf.portMappings[i].name)
    THEN JsToString(conf.portMappings[CHOOSE i \in 1..Len(conf.portMappings) :
                                          t = PhPort(conf.portMappings[i].name)].port)
    ELSE t

\* the same update of the same directory under another increment
UpdateWithIncrement(r, inc) ==
    updateEnvironmentFiles(Env(r.before, <<>>, ""), UpdateTarget,
                           Git(r.list, r.op.failAt),
                           [conf EXCEPT !.portOffsetIncrement = inc])

\* C11: the line written for a container-name variable is its template with
\* the worktree name and index filled in and no port shifted, and an update
\* under any other portOffsetIncrement writes the same line
C11_ContainerNameIgnoresIncrement ==
    \A k \in RunIds :
        LET r == runs[k] IN
        (r.op.kind \in {"update", "names"} /\ r.err = "") =>
            \A i \in 1..Len(conf.containerNames) :
                LET c == conf.containerNames[i] IN
                /\ AssignedLines(r.after, c.name) =
                       {<<c.name, "=">> \o
                            MapSeq(c.template, LAMBDA t : ExpectedNameToken(t, r.index))}
                /\ r.op.kind = "update" =>
                       \A inc \in Increments :
                           \E dir \in {UpdateWithIncrement(r, inc).dir} :
                               AssignedLines(dir, c.name)
                                   = AssignedLines(r.after, c.name)

C11_Witness ==
    \E k \in RunIds :
        /\ runs[k].op.kind = "update"
        /\ runs[k].err = ""
        /\ runs[k].index = 2
        /\ conf.containerNames = NamesPort
        /\ \E inc \in Increments :
               UpdateWithIncrement(runs[k], inc).dir # runs[k].after

ContainerVars == {conf.containerNames[i].name : i \in 1..Len(conf.containerNames)}

\* the variables some env_vars rule lists
EnvVarsRuleVars ==
    UNION {{splitVars(conf.fileUpdates[i].spec)[j] :
               j \in 1..Len(splitVars(conf.fileUpdates[i].spec))} :
           i \in {n \in 1..Len(conf.fileUpdates) :
                     conf.fileUpdates[n].updateType = "env_vars"}}

PortLinesWritten(r) ==
    \A i \in 1..Len(conf.portMappings) :
        (~conf.portMappings[i].port.nan
         /\ conf.portMappings[i].name \notin ContainerVars) =>
            AssignedLines(r.after, conf.portMappings[i].name) =
                {ExpectedPortLine(conf.portMappings[i].name, r.index)}

ContainerLinesWritten(r) ==
    \A i \in 1..Len(conf.containerNames) :
        AssignedLines(r.after, conf.containerNames[i].name) # {}

\* C13: when git answers, updateEnvironmentFiles throws nothing whatever its
\* rules do, and the port-mapping and container-name upserts have run
C13_RuleFailureDoesNotStopUpdate ==
    \A k \in RunIds :
        LET r == runs[k] IN
        (r.op.kind = "update" /\ r.err # "GitError") =>
            /\ r.err = ""
            /\ PortLinesWritten(r)
            /\ ContainerLinesWritten(r)

MalformedReplace(rule) ==
    /\ rule.updateType = "replace"
    /\ (~rule.searchPattern.has \/ ~rule.replacement.has)

\* C14: a replace rule without a searchPattern or a replacement is not in
\* the parsed configuration, or applying it leaves its target file as it was
\* and throws nothing (so that the rules after it run)
C14_MalformedReplaceIsSkipped ==
    \A k \in RunIds :
        LET r == runs[k] IN
        (r.op.kind = "rule" /\ MalformedReplace(RuleOf(r))) =>
            /\ r.after = r.before
            /\ r.err = ""

\* C15: an updateEnvironmentFiles in which an index resolution fails throws
\* the failure and leaves every file as it was
C15_ResolverFailureTouchesNothing ==
    \A k \in RunIds :
        LET r == runs[k] IN
        (r.op.kind = "update"
         /\ r.op.failAt \in 1..GitCalls(r.log)) =>
            /\ r.err = "GitError"
            /\ r.after = r.before

\* the positions of the lines of content that assign v
AssignPositions(content, v) ==
    {i \in 1..Len(content) : LineAssigns(content[i], v)}

\* an env_vars rule run on a file in which one of its variables with a base
\* port is assigned on more than one line
RepeatedVars(r) ==
    {v \in ValidVars(RuleOf(r)) :
        AssignCount(ContentBefore(r, RuleOf(r).filePath), v) > 1}

\* C22 as stated: of several lines VARNAME=..., an env_vars upsert rewrites
\* the first and leaves the later ones as they were
C22_OnlyFirstMatchReplaced ==
    \A k \in RunIds :
        IsRuleRun(runs[k], "env_vars") =>
            LET r == runs[k]
                b == ContentBefore(r, RuleOf(r).filePath)
                a == ContentAfter(r, RuleOf(r).filePath)
            IN \A v \in RepeatedVars(r) :
                   /\ a[FirstAssign(b, v)] = ExpectedPortLine(v, r.index)
                   /\ \A i \in AssignPositions(b, v) \ {FirstAssign(b, v)} :
                          a[i] = b[i]

\* C22: of several lines VARNAME=..., an env_vars upsert rewrites every one
\* to VARNAME=newPort, each in its place, and appends none
C22_EveryMatchReplaced ==
    \A k \in RunIds :
        IsRuleRun(runs[k], "env_vars") =>
            LET r == runs[k]
                b == ContentBefore(r, RuleOf(r).filePath)
                a == ContentAfter(r, RuleOf(r).filePath)
            IN \A v \in RepeatedVars(r) :
                   /\ AssignPositions(a, v) = AssignPositions(b, v)
                   /\ \A i \in AssignPositions(b, v) :
                          a[i] = ExpectedPortLine(v, r.index)

C22_Witness ==
    \E k \in RunIds :
        /\ IsRuleRun(runs[k], "env_vars")
        /\ runs[k].err = ""
        /\ \E v \in RepeatedVars(runs[k]) :
               LET b == ContentBefore(runs[k], RuleOf(runs[k]).filePath)
               IN \E i \in AssignPositions(b, v) :
                      /\ i # FirstAssign(b, v)
                      /\ b[i] # ExpectedPortLine(v, runs[k].index)

\* the tokens of seq stand side by side in line
Occurs(seq, line) ==
    \E p \in 1..(Len(line) - Len(seq) + 1) : SubSeq(line, p, p + Len(seq) - 1) = seq

HasLine(content, line) == \E j \in 1..Len(content) : content[j] = line

\* the replace rules of the configuration that found their pattern in run r
AppliedReplaceRules(r) ==
    {i \in 1..Len(conf.fileUpdates) :
        LET rule == conf.fileUpdates[i] IN
        /\ rule.updateType = "replace"
        /\ rule.searchPattern.has /\ rule.replacement.has
        /\ pathExists(r.before, rule.filePath)
        /\ \E j \in 1..Len(readFile(r.before, rule.filePath)) :
               Occurs(rule.searchPattern.val, readFile(r.before, rule.filePath)[j])}

\* everything run r wrote is what the worktree index idx gives: the port
\* lines, the container names and the replacements of its replace rules
WrittenWithIndex(r, idx) ==
    /\ \A i \in 1..Len(conf.portMappings) :
           ~conf.portMappings[i].port.nan =>
               HasLine(ContentAfter(r, EnvPath),
                       ExpectedPortLine(conf.portMappings[i].name, idx))
    /\ \A i \in 1..Len(conf.containerNames) :
           HasLine(ContentAfter(r, EnvPath),
                   <<conf.containerNames[i].name, "=">>
                   \o MapSeq(conf.containerNames[i].template,
                             LAMBDA t : ExpectedNameToken(t, idx)))
    /\ \A i \in AppliedReplaceRules(r) :
           \E j \in 1..Len(ContentAfter(r, conf.fileUpdates[i].filePath)) :
               Occurs(MapSeq(conf.fileUpdates[i].replacement.val,
                             LAMBDA t : ExpectedToken(t, idx)),
                      ContentAfter(r, conf.fileUpdates[i].filePath)[j])

\* the same, for the calls during which the worktree list stays as it is
SequentialUpdateUsesOneIndex ==
    \A k \in RunIds :
        (runs[k].op.kind = "update" /\ runs[k].err = "") =>
            WrittenWithIndex(runs[k], runs[k].index)

\* C28: a call of updateEnvironmentFiles that completes has written every
\* port, container name and replacement with one worktree index, also when
\* another process adds or removes a worktree while it runs
C28_OneIndexPerCall ==
    \A k \in RunIds :
        (runs[k].op.kind \in {"update", "raced"} /\ runs[k].err = "") =>
            \E idx \in 0..Len(runs[k].list) : WrittenWithIndex(runs[k], idx)

\* rule i applied to what rule i - 1 left, for the rules from i on
RECURSIVE RulesInOrder(_, _, _)
RulesInOrder(r, u, i) ==
    IF i > Len(conf.fileUpdates) THEN u
    ELSE RulesInOrder(r,
                      processFileUpdate(u, conf.fileUpdates[i], UpdateTarget,
                                        r.index, r.offset,
                                        Git(r.list, NoGitFailure), conf),
                      i + 1)

\* the steps of run r one after the other, each on the directory the step
\* before it left: the two index resolutions, the rules in declaration
\* order, the port upsert, the container-name upsert
StepsInOrder(r) ==
    LET resolved == Env(r.before,
                        <<Call("getWorktreeIndex", UpdateTarget),
                          Call("getWorktreeIndex", UpdateTarget)>>, "")
        ruled == RulesInOrder(r, resolved, 1)
        ported == IF Len(conf.portMappings) > 0
                  THEN updatePortVariables(ruled, conf.portMappings, r.offset)
                  ELSE ruled
    IN IF Len(conf.containerNames) > 0
       THEN updateContainerNames(ported, conf.containerNames, UpdateTarget,
                                 r.index, conf.portMappings)
       ELSE ported

\* C24: a call of updateEnvironmentFiles that completes has resolved the
\* index first, then applied each rule in declaration order, then upserted
\* the ports and then the container names into the primary environment
\* file, each step reading what the step before it wrote: its calls and the
\* files it leaves are those of the steps taken one after the other
C24_StepsInOrder ==
    \A k \in RunIds :
        (runs[k].op.kind = "update" /\ runs[k].err = "") =>
            \E steps \in {StepsInOrder(runs[k])} :
                /\ runs[k].log = steps.log
                /\ runs[k].after = steps.dir
                /\ runs[k].log[1][1] = "getWorktreeIndex"

C24_Witness ==
    \E k \in RunIds :
        /\ runs[k].op.kind = "update"
        /\ runs[k].err = ""
        /\ Len(conf.fileUpdates) > 1
        /\ Len(conf.portMappings) > 0
        /\ Len(conf.containerNames) > 0
        /\ ContentBefore(runs[k], EnvPath) = EmptyContent
        /\ runs[k].log[Len(runs[k].log)] = Call("writeFile", EnvPath)
        /\ \E i \in 1..Len(runs[k].log) : runs[k].log[i][2] = AppPath

\* the variables an env_vars rule lists that the port-mapping table holds
ListedVars(rule) ==
    {v \in {splitVars(rule.spec)[i] : i \in 1..Len(splitVars(rule.spec))} :
        HasVar(conf.portMappings, v)}

\* the port-mapping upsert applied to the directory run r started from
PortUpsertInstead(r) ==
    updatePortVariables(Env(r.before, <<>>, ""), conf.portMappings, r.offset).dir

\* the same comparison for the variables with a base port of 1..65535
EnvVarsRuleAgreesOnValidPorts ==
    \A k \in RunIds :
        (IsRuleRun(runs[k], "env_vars") /\ RuleOf(runs[k]).filePath = EnvPath) =>
            \A v \in ValidVars(RuleOf(runs[k])) :
                AssignedLines(runs[k].after, v)
                    = AssignedLines(PortUpsertInstead(runs[k]), v)

\* C29: an env_vars rule on the primary environment file leaves, for each
\* port variable it lists, the lines the port-mapping upsert leaves for it
\* on the same file with the same offset, a variable with base port 0 or
\* NaN included
C29_EnvVarsRuleAgreesWithPortUpsert ==
    \A k \in RunIds :
        (IsRuleRun(runs[k], "env_vars") /\ RuleOf(runs[k]).filePath = EnvPath) =>
            \A v \in ListedVars(RuleOf(runs[k])) :
                AssignedLines(runs[k].after, v)
                    = AssignedLines(PortUpsertInstead(runs[k]), v)

(***************************************************************************)
(* SpecRender: substituteTemplate applied once to a template, with a       *)
(* worktree name, an index, a port offset and the port mappings of the     *)
(* configuration.                                                          *)
(***************************************************************************)
MaxRenderIndex == 2

\* worktree names, two of which read as a placeholder of a later pass
RenderNames == {"b", PhIndex, PhPort("API_PORT")}

\* the last table has a port variable whose placeholder is that of the index
RenderMappings ==
    { <<>>, Mappings2, MappingsOdd,
      <<Mapping("WORKTREE_INDEX", Num(5000)), Mapping("API_PORT", Num(BaseApi))>> }

RenderTemplates ==
    { <<>>,
      <<"myapp-", PhName, "-db">>,
      <<PhName, "-", PhIndex, "-", PhName, "-", PhIndex>>,
      <<"http://localhost:", PhPort("API_PORT"), "/", PhPort("CLIENT_PORT"),
        "?", PhPort("API_PORT")>>,
      <<PhName, PhIndex, PhPort("API_PORT"), "{{UNKNOWN}}", "{{worktree_name}}",
        "{{ WORKTREE_NAME }}", PhPort("BAD_PORT"), PhPort("ZERO_PORT")>> }

InitRender ==
    /\ conf \in {Config(inc, m, <<>>, <<>>) :
                    inc \in {1, DefaultIncrement}, m \in RenderMappings}
    /\ wtList = <<ProjectName>>
    /\ branches = {}
    /\ fsys = <<>>
    /\ log = <<>>
    /\ lastErr = ""
    /\ lastCmd = <<"none">>
    /\ runs = <<>>

\* the offset is the one updateEnvironmentFiles passes (index * increment)
\* or the 0 of updateContainerNames
Render(template, worktreeName, worktreeIndex, portOffset) ==
    /\ runs = <<>>
    /\ runs' = <<[template |-> template, name |-> worktreeName,
                  index |-> worktreeIndex, offset |-> portOffset,
                  out |-> substituteTemplate(template, worktreeName, worktreeIndex,
                                             portOffset, conf.portMappings)]>>
    /\ lastCmd' = <<"substituteTemplate", worktreeName>>
    /\ UNCHANGED <<conf, wtList, branches, fsys, log, lastErr>>

NextRender ==
    \E template \in RenderTemplates, worktreeName \in RenderNames,
       worktreeIndex \in 0..MaxRenderIndex :
        \E portOffset \in {0, worktreeIndex * conf.portOffsetIncrement} :
            Render(template, worktreeName, worktreeIndex, portOffset)

SpecRender == InitRender /\ [][NextRender]_vars

(***************************************************************************)
(* Properties of SpecRender.                                               *)
(***************************************************************************)
\* what becomes of one token: the name pass, then the index pass on its
\* result, then the port pass on the result of that
RenderedToken(t, r) ==
    LET t1 == IF t = PhName THEN r.name ELSE t
        t2 == IF t1 = PhIndex THEN ToString(r.index) ELSE t1
        V == {i \in 1..Len(conf.portMappings) : t2 = PhPort(conf.portMappings[i].name)}
    IN IF V = {} THEN t2
       ELSE JsToString(JsAdd(conf.portMappings[CHOOSE i \in V : TRUE].port,
                             Num(r.offset)))

\* the tokens no pass looks for
Inert(t, r) ==
    /\ t \notin {PhName, PhIndex}
    /\ \A i \in 1..Len(conf.portMappings) : t # PhPort(conf.portMappings[i].name)

\* C23: rendering replaces every {{WORKTREE_NAME}} by the name, then every
\* {{WORKTREE_INDEX}} by the decimal index, then every {{V}} of a port
\* variable V by base port + offset; every other token, unknown {{...}}
\* placeholders included, stays as it is, and a result always comes out
C23_RenderOrder ==
    \A k \in 1..Len(runs) :
        LET r == runs[k] IN
        /\ Len(r.out) = Len(r.template)
        /\ \A i \in 1..Len(r.template) :
               /\ r.out[i] = RenderedToken(r.template[i], r)
               /\ Inert(r.template[i], r) => r.out[i] = r.template[i]

C23_Witness ==
    \E k \in 1..Len(runs) :
        LET r == runs[k] IN
        /\ r.name = PhIndex
        /\ r.index = 2
        /\ HasVar(conf.portMappings, "WORKTREE_INDEX")
        /\ \E i, j, l \in 1..Len(r.template) :
               /\ r.template[i] = PhName /\ r.out[i] = "2"
               /\ r.template[j] = "{{UNKNOWN}}" /\ r.out[j] = "{{UNKNOWN}}"
               /\ r.template[l] = PhPort("API_PORT")
               /\ r.out[l] = ToString(BaseApi + r.offset)

(***************************************************************************)
(* Spec: the worktree lifecycle commands of WorktreeManager, each a new    *)
(* process run from the main worktree, one after the other.                *)
(***************************************************************************)
MaxWorktrees == 2

MainBranch == "main"

loadDefaultConfig == Config(DefaultIncrement, <<>>, <<>>, <<>>)

\* what `git worktree add` checks out: the files of the main worktree that
\* are under version control (.env and .gitignore'd files are not)
TrackedPaths == {SamplePath, AppPath, GitIgnorePath}

Checkout(mainDir) ==
    [files |-> [p \in Paths |-> IF p \in TrackedPaths THEN mainDir.files[p] ELSE NoFile],
     subdirs |-> {RootDir} \cup {ParentOf(p) : p \in {q \in TrackedPaths : pathExists(mainDir, q)}}]

\* fs.ensureDir(path.dirname(dest)); fs.copy(source, dest)
copyFile(dir, mainDir, source, dest) ==
    [files |-> [dir.files EXCEPT ![dest] = mainDir.files[source]],
     subdirs |-> dir.subdirs \cup {ParentOf(dest)}]

\* the default list of copyEnvironmentFiles, as far as the modelled paths go
DefaultEnvFiles == <<EnvPath>>

HasSample(p) == p = EnvPath

RECURSIVE copyEnvLoop(_, _, _, _)
copyEnvLoop(dir, mainDir, envFiles, i) ==
    IF i > Len(envFiles) THEN dir
    ELSE LET envFile == envFiles[i]
         IN copyEnvLoop(
                IF pathExists(mainDir, envFile)
                THEN copyFile(dir, mainDir, envFile, envFile)
                ELSE IF HasSample(envFile) /\ pathExists(dir, SamplePath)
                THEN copyFile(dir, dir, SamplePath, envFile)
                ELSE dir,
                mainDir, envFiles, i + 1)

copyEnvironmentFiles(dir, mainDir, config) ==
    copyEnvLoop(dir, mainDir,
                IF Len(config.envFiles) > 0 THEN config.envFiles ELSE DefaultEnvFiles,
                1)

\* one .gitignore pattern: a file or a directory of the main worktree is
\* copied unless the destination already exists
copyIgnored(dir, mainDir, pattern) ==
    IF pattern \in Paths
    THEN IF pathExists(mainDir, pattern) /\ ~pathExists(dir, pattern)
         THEN copyFile(dir, mainDir, pattern, pattern)
         ELSE dir
    ELSE IF pattern \in mainDir.subdirs /\ pattern \notin dir.subdirs
    THEN [files |-> [p \in Paths |->
                        IF p \in FilesUnder(pattern) THEN mainDir.files[p]
                        ELSE dir.files[p]],
          subdirs |-> dir.subdirs \cup {pattern}]
    ELSE dir

RECURSIVE copyIgnoredLoop(_, _, _, _)
copyIgnoredLoop(dir, mainDir, patterns, i) ==
    IF i > Len(patterns) THEN dir
    ELSE copyIgnoredLoop(copyIgnored(dir, mainDir, patterns[i]), mainDir,
                         patterns, i + 1)

copyGitIgnoredFiles(dir, mainDir) ==
    IF ~pathExists(mainDir, GitIgnorePath) THEN dir
    ELSE LET lines == readFile(mainDir, GitIgnorePath)
             kept == SelectSeq(lines, LAMBDA l : l # <<>> /\ l[1] \notin {"#", "!"})
         IN copyIgnoredLoop(dir, mainDir, MapSeq(kept, LAMBDA l : l[1]), 1)

Linked(list) == {wtNameOf(list[i]) : i \in 2..Len(list)}

WithDir(fs, d, dir) == [x \in DOMAIN fs \cup {d} |-> IF x = d THEN dir ELSE fs[x]]

WithoutDir(fs, d) == [x \in DOMAIN fs \ {d} |-> fs[x]]

\* mutant: only the branch is looked for
createChecks_branchOnly(name) ==
    IF name \in branches THEN "BranchExists" ELSE ""

\* the two checks at the head of createWorktree: the error thrown, or ""
createChecks(name) ==
    IF name \in branches THEN "BranchExists"
    ELSE IF WtDir(name) \in DOMAIN fsys THEN "DirectoryExists"
    ELSE ""

\* this.config.get().startContainers as a command reads it: the read and
\* the value it yields
getStartContainers(config) ==
    Call("config.get", IF config.startContainers THEN "true" ELSE "false")

\* what a command leaves: the worktree list, the branches, the directories,
\* the calls it made and the error it threw ("": none)
Outcome(list, brs, fs, calls, err) ==
    [list |-> list, branches |-> brs, fs |-> fs, log |-> calls, err |-> err]

\* createWorktree from `git worktree add` on; this.config becomes the
\* configuration of .wt.conf at copyEnvironmentFiles.  An error thrown on
\* the way is rethrown by the catch block, which undoes nothing
createSetup(name) ==
    LET worktreeDir == WtDir(name)
        mainDir == fsys[getMainWorktreeDir(wtList)]
        list == Append(wtList, worktreeDir)
        copied == copyGitIgnoredFiles(
                      copyEnvironmentFiles(Checkout(mainDir), mainDir, conf),
                      mainDir)
        u == updateEnvironmentFiles(
                 Env(copied,
                     <<Call("branchExists", name),
                       Call("pathExists", worktreeDir),
                       Call("addWorktree", worktreeDir),
                       Call("loadConfig", ""),
                       Call("copyEnvironmentFiles", worktreeDir),
                       Call("copyGitIgnoredFiles", worktreeDir)>>,
                     ""),
                 name, Git(list, NoGitFailure), conf)
    IN Outcome(list, branches \cup {name}, WithDir(fsys, worktreeDir, u.dir),
               u.log, u.err)

\* mutant: a setup that throws is undone, worktree and branch are removed
createOutcome_rollsBack(name) ==
    IF createChecks(name) = "BranchExists"
    THEN Outcome(wtList, branches, fsys, <<Call("branchExists", name)>>,
                 "BranchExists")
    ELSE IF createChecks(name) = "DirectoryExists"
    THEN Outcome(wtList, branches, fsys,
                 <<Call("branchExists", name), Call("pathExists", WtDir(name))>>,
                 "DirectoryExists")
    ELSE IF createSetup(name).err # ""
    THEN Outcome(wtList, branches, fsys, createSetup(name).log,
                 createSetup(name).err)
    ELSE createSetup(name)

\* createWorktree(name)
createOutcome(name) ==
    IF createChecks(name) = "BranchExists"
    THEN Outcome(wtList, branches, fsys, <<Call("branchExists", name)>>,
                 "BranchExists")
    ELSE IF createChecks(name) = "DirectoryExists"
    THEN Outcome(wtList, branches, fsys,
                 <<Call("branchExists", name), Call("pathExists", WtDir(name))>>,
                 "DirectoryExists")
    ELSE createSetup(name)

\* the process ends: what the command left is what the next one finds
Finish(cmd, o) ==
    /\ lastCmd' = cmd
    /\ wtList' = o.list
    /\ branches' = o.branches
    /\ fsys' = o.fs
    /\ log' = o.log
    /\ lastErr' = o.err
    /\ UNCHANGED <<conf, runs>>

\* wt create <name>
createWorktree(name) ==
    \E o \in {createOutcome(name)} : Finish(<<"create", name>>, o)

\* startWorktree(name) in a process whose this.config is config and which
\* has made the calls so far
startWorktree(config, o, name) ==
    LET worktreeDir == WtDir(name)
        asked == o.log \o <<getStartContainers(config)>>
    IN IF ~config.startContainers
       THEN [o EXCEPT !.log = asked]
       ELSE IF worktreeDir \notin DOMAIN o.fs
       THEN [o EXCEPT !.log = asked \o <<Call("pathExists", worktreeDir)>>,
                      !.err = "WorktreeNotFound"]
       ELSE [o EXCEPT !.log = asked \o <<Call("pathExists", worktreeDir),
                                          Call("startContainers", name)>>]

\* TmuxManager.openWorktree(name): the session is created when there is
\* none; createSession reads the ConfigLoader the TmuxManager made for
\* itself, which nothing ever loads
tmuxOpenWorktree(o, name, hasSession) ==
    LET config == loadDefaultConfig
    IN [o EXCEPT !.log =
           @ \o <<Call("sessionExists", name)>>
             \o (IF hasSession THEN <<>>
                 ELSE <<Call("createSession", name), getStartContainers(config)>>
                      \o (IF config.startContainers
                          THEN <<Call("dockerPs", name)>> ELSE <<>>))
             \o <<Call("attachSession", name)>>]

\* wt open <name>
openWorktree(name, hasSession) ==
    LET worktreeDir == WtDir(name)
        o == Outcome(wtList, branches, fsys, <<Call("pathExists", worktreeDir)>>, "")
    IN IF worktreeDir \notin DOMAIN fsys
       THEN [o EXCEPT !.err = "WorktreeNotFound"]
       ELSE tmuxOpenWorktree(o, name, hasSession)

\* git worktree remove --force <dir> (or rm -rf and git worktree prune)
removeWorktree(list, worktreeDir) == SelectSeq(list, LAMBDA d : d # worktreeDir)

\* mutant: the worktree and the branch are removed whatever the flag says
cleanupWorktree_ignoresFlag(name, removeDir) ==
    LET worktreeDir == WtDir(name)
        stop == <<Call("pathExists", worktreeDir), Call("cleanupContainers", name),
                  Call("killSession", name)>>
    IN /\ lastCmd' = <<"cleanup", name, IF removeDir THEN "--remove-dir" ELSE "">>
       /\ UNCHANGED <<conf, runs>>
       /\ IF worktreeDir \notin DOMAIN fsys
          THEN /\ lastErr' = "WorktreeNotFound"
               /\ log' = <<Call("pathExists", worktreeDir)>>
               /\ UNCHANGED <<wtList, branches, fsys>>
          ELSE /\ lastErr' = ""
               /\ wtList' = SelectSeq(wtList, LAMBDA d : d # worktreeDir)
               /\ fsys' = WithoutDir(fsys, worktreeDir)
               /\ branches' = branches \ {name}
               /\ log' = stop \o <<Call("removeWorktree", worktreeDir),
                                   Call("deleteBranch", name)>>

\* wt cleanup <name> [--remove-dir]; the process never loads .wt.conf, so
\* config.get() is the default configuration
cleanupWorktree(name, removeDir) ==
    LET worktreeDir == WtDir(name)
        config == loadDefaultConfig
        head == <<Call("pathExists", worktreeDir)>>
        stop == head
                \o <<getStartContainers(config)>>
                \o (IF config.startContainers
                    THEN <<Call("cleanupContainers", name)>> ELSE <<>>)
                \o <<Call("killSession", name)>>
    IN /\ lastCmd' = <<"cleanup", name, IF removeDir THEN "--remove-dir" ELSE "">>
       /\ UNCHANGED <<conf, runs>>
       /\ IF worktreeDir \notin DOMAIN fsys
          THEN /\ lastErr' = "WorktreeNotFound"
               /\ log' = head
               /\ UNCHANGED <<wtList, branches, fsys>>
          ELSE /\ lastErr' = ""
               /\ IF removeDir
                  THEN /\ wtList' = removeWorktree(wtList, worktreeDir)
                       /\ fsys' = WithoutDir(fsys, worktreeDir)
                       /\ branches' = branches \ {name}
                       /\ log' = stop \o <<Call("removeWorktree", worktreeDir),
                                           Call("deleteBranch", name)>>
                  ELSE /\ log' = stop
                       /\ UNCHANGED <<wtList, branches, fsys>>

MainEnvFiles ==
    { NoFile,
      FileOf(<<Assign("API_PORT", "3000"), Assign("CLIENT_PORT", "3001"), <<>> >>) }

MainDirs ==
    { [files |-> [p \in Paths |->
                    IF p = EnvPath THEN e
                    ELSE IF p = AppPath THEN a
                    ELSE IF p = GitIgnorePath THEN g
                    ELSE NoFile],
       subdirs |-> IF a = NoFile THEN {RootDir} ELSE {RootDir, ConfigDir}] :
        e \in MainEnvFiles, a \in AppFiles,
        g \in {NoFile, FileOf(<<<<"#", "local">>, <<EnvPath>>, <<ConfigDir>>>>)} }

\* .wt.conf as parseConfig reads it; the last one says START_CONTAINERS=false
Configs ==
    { Config(DefaultIncrement, Mappings2, <<>>, <<>>),
      Config(DefaultIncrement, Mappings2, Names1, <<RuleEnvApp, RuleReplace>>),
      Config(1, Mappings2, <<>>, <<RuleAppend>>),
      [Config(DefaultIncrement, Mappings2, Names1, <<>>)
          EXCEPT !.startContainers = FALSE] }

\* what the repository may hold besides its main worktree before the first
\* command: nothing, a branch named like a worktree to come, or a directory
\* where such a worktree would go
StrayName == "c"

StrayKinds == {"none", "branch", "dir"}

Init ==
    /\ conf \in Configs
    /\ wtList = <<ProjectName>>
    /\ \E d \in MainDirs, stray \in StrayKinds :
           /\ branches = IF stray = "branch" THEN {MainBranch, StrayName}
                         ELSE {MainBranch}
           /\ fsys = IF stray = "dir"
                     THEN WithDir([w \in {ProjectName} |-> d], WtDir(StrayName), EmptyDir)
                     ELSE [w \in {ProjectName} |-> d]
    /\ log = <<>>
    /\ lastErr = ""
    /\ lastCmd = <<"none">>
    /\ runs = <<>>

CreateWorktree(name) ==
    /\ Len(wtList) - 1 < MaxWorktrees
    /\ createWorktree(name)

CleanupWorktree(name, removeDir) == cleanupWorktree(name, removeDir)

\* wt start <name>: the process never loads .wt.conf, so config.get() is
\* the default configuration
StartWorktree(name) ==
    \E o \in {startWorktree(loadDefaultConfig,
                             Outcome(wtList, branches, fsys, <<>>, ""), name)} :
        Finish(<<"start", name>>, o)

\* wt new <name>: createWorktree, startWorktree and tmux.openWorktree in
\* one process, so startWorktree reads the configuration createWorktree
\* loaded; the first of them that throws ends the command
NewWorktree(name, hasSession) ==
    /\ Len(wtList) - 1 < MaxWorktrees
    /\ \E created \in {createOutcome(name)} :
       \E started \in {IF created.err # "" THEN created
                        ELSE startWorktree(conf, created, name)} :
       \E opened \in {IF started.err # "" THEN started
                       ELSE tmuxOpenWorktree(started, name, hasSession)} :
           Finish(<<"new", name>>, opened)

OpenWorktree(name, hasSession) ==
    \E o \in {openWorktree(name, hasSession)} : Finish(<<"open", name>>, o)

Next ==
    \/ \E name \in Names : CreateWorktree(name)
    \/ \E name \in Names, removeDir \in BOOLEAN : CleanupWorktree(name, removeDir)
    \/ \E name \in Names : StartWorktree(name)
    \/ \E name \in Names, hasSession \in BOOLEAN : NewWorktree(name, hasSession)
    \/ \E name \in Names, hasSession \in BOOLEAN : OpenWorktree(name, hasSession)

Spec == Init /\ [][Next]_vars

(***************************************************************************)
(* Properties of Spec.                                                     *)
(***************************************************************************)
\* the lines of the primary environment file of a worktree that assign v
WrittenLines(name, v) ==
    LET dir == fsys[WtDir(name)]
    IN IF pathExists(dir, EnvPath)
       THEN {readFile(dir, EnvPath)[i] : i \in
                {j \in 1..Len(readFile(dir, EnvPath)) :
                    LineAssigns(readFile(dir, EnvPath)[j], v)}}
       ELSE {}

NoRuleThrows ==
    \A i \in 1..Len(conf.fileUpdates) : conf.fileUpdates[i].updateType = "env_vars"

\* C1: no two worktrees that exist together hold the same value for the
\* same port-mapping variable in their .env (for a configuration none of
\* whose rules can throw, so that every creation ran its update to the end)
C1_NoPortCollision ==
    NoRuleThrows =>
        \A n1 \in Linked(wtList), n2 \in Linked(wtList) :
            n1 # n2 =>
                \A i \in 1..Len(conf.portMappings) :
                    WrittenLines(n1, conf.portMappings[i].name)
                        \cap WrittenLines(n2, conf.portMappings[i].name) = {}

AllNames == Names \cup {ProjectName}

C4_IndexIsListPosition ==
    \A n \in AllNames :
        LET linked == Tail(wtList)
            at == {i \in 1..Len(linked) : wtNameOf(linked[i]) = n}
        IN IF at = {}
           THEN getWorktreeIndex(wtList, n) = Len(linked) + 1
           ELSE /\ getWorktreeIndex(wtList, n) \in at
                /\ \A i \in at : getWorktreeIndex(wtList, n) <= i

C4_Witness ==
    /\ Len(wtList) = 3
    /\ \E n \in Names : getWorktreeIndex(wtList, n) = 2 /\ n \in Linked(wtList)
    /\ \E n \in Names : getWorktreeIndex(wtList, n) = 3 /\ n \notin Linked(wtList)

\* the positions in the call log of the calls of one operation
CallsOf(calls, op) == {i \in 1..Len(calls) : calls[i][1] = op}

CreateEffects ==
    {"addWorktree", "loadConfig", "copyEnvironmentFiles", "copyGitIgnoredFiles",
     "getWorktreeIndex", "ensureFile", "writeFile", "appendFile"}

\* C19: a create of a name whose branch or whose directory exists throws,
\* and the worktree list, the branches and every directory are as before:
\* no worktree was added, no file copied and no environment update run
C19_CreateFailsOnExisting ==
    [][(lastCmd'[1] = "create"
        /\ (lastCmd'[2] \in branches \/ WtDir(lastCmd'[2]) \in DOMAIN fsys))
       => /\ lastErr' = (IF lastCmd'[2] \in branches THEN "BranchExists"
                         ELSE "DirectoryExists")
          /\ UNCHANGED <<wtList, branches, fsys>>
          /\ \A op \in CreateEffects : CallsOf(log', op) = {}]_vars

\* a create stopped by a directory that no branch goes with, after a create
\* that was stopped by nothing
C19_Witness ==
    /\ lastCmd[1] = "create"
    /\ lastErr = "DirectoryExists"
    /\ lastCmd[2] \notin branches
    /\ Len(wtList) > 1

CleanupEffects == {"cleanupContainers", "killSession", "removeWorktree", "deleteBranch"}

Before(calls, op1, op2) ==
    \A i \in CallsOf(calls, op1), j \in CallsOf(calls, op2) : i < j

\* C20: a cleanup of a name whose directory is missing throws before any
\* container cleanup, session kill, removal or branch deletion; without
\* --remove-dir the worktree and the branch stay; with it the worktree is
\* removed and then the branch deleted, after the container cleanup and the
\* session kill
C20_CleanupOrder ==
    [][lastCmd'[1] = "cleanup" =>
          LET name == lastCmd'[2]
              worktreeDir == WtDir(name)
          IN IF worktreeDir \notin DOMAIN fsys
             THEN /\ lastErr' = "WorktreeNotFound"
                  /\ \A op \in CleanupEffects : CallsOf(log', op) = {}
                  /\ UNCHANGED <<wtList, branches, fsys>>
             ELSE IF lastCmd'[3] = ""
             THEN /\ UNCHANGED <<wtList, branches, fsys>>
                  /\ CallsOf(log', "removeWorktree") = {}
                  /\ CallsOf(log', "deleteBranch") = {}
                  /\ CallsOf(log', "killSession") # {}
             ELSE /\ worktreeDir \notin DOMAIN fsys'
                  /\ \A i \in 1..Len(wtList') : wtList'[i] # worktreeDir
                  /\ name \notin branches'
                  /\ CallsOf(log', "removeWorktree") # {}
                  /\ CallsOf(log', "deleteBranch") # {}
                  /\ CallsOf(log', "cleanupContainers") # {}
                  /\ CallsOf(log', "killSession") # {}
                  /\ Before(log', "cleanupContainers", "removeWorktree")
                  /\ Before(log', "killSession", "removeWorktree")
                  /\ Before(log', "removeWorktree", "deleteBranch")]_vars

C20_Witness ==
    /\ lastCmd[1] = "cleanup"
    /\ lastCmd[3] = "--remove-dir"
    /\ lastErr = ""
    /\ CallsOf(log, "deleteBranch") # {}
    /\ Len(wtList) = 2

ContainerEffects == {"startContainers", "cleanupContainers"}

\* C21: with START_CONTAINERS=false in the configuration, a start (alone or
\* within new) starts no containers and a cleanup runs no container
\* cleanup, while a cleanup that finds the directory still kills the session
C21_DisabledContainersAreLeftAlone ==
    [][(~conf.startContainers /\ lastCmd'[1] \in {"start", "new", "cleanup"}) =>
          /\ \A op \in ContainerEffects : CallsOf(log', op) = {}
          /\ (lastCmd'[1] = "cleanup" /\ lastErr' = "") =>
                 CallsOf(log', "killSession") # {}]_vars

\* the part of it that goes through the configuration createWorktree has
\* loaded: the start within new
NewLeavesDisabledContainersAlone ==
    [][(~conf.startContainers /\ lastCmd'[1] = "new") =>
          \A op \in ContainerEffects : CallsOf(log', op) = {}]_vars

\* C27: every read of startContainers a command makes yields the value the
\* configuration file gives it
C27_ReadsSeeTheConfigurationFile ==
    \A i \in CallsOf(log, "config.get") :
        log[i][2] = (IF conf.startContainers THEN "true" ELSE "false")

SetupErrors == {"ENOENT", "SyntaxError", "TypeError", "GitError"}

\* the lines the port upsert of a completed setup leaves are not all there
SetupIncomplete(name) ==
    \E i \in 1..Len(conf.portMappings) :
        <<conf.portMappings[i].name, "=",
          ToString(conf.portMappings[i].port.n
                   + getWorktreeIndex(wtList, name) * conf.portOffsetIncrement)>>
            \notin WrittenLines(name, conf.portMappings[i].name)

\* C30: a createWorktree(name) that throws after `git worktree add` leaves
\* the worktree, its directory and its branch in place, and the same
\* command issued again right away throws 'Branch ... already exists' and
\* changes nothing
C30_FailedCreateIsNotRolledBack ==
    [][/\ (lastCmd'[1] = "create" /\ lastErr' \in SetupErrors) =>
             /\ lastCmd'[2] \in branches'
             /\ WtDir(lastCmd'[2]) \in DOMAIN fsys'
             /\ \E i \in 2..Len(wtList') : wtList'[i] = WtDir(lastCmd'[2])
             /\ CallsOf(log', "addWorktree") # {}
             /\ CallsOf(log', "removeWorktree") = {}
             /\ CallsOf(log', "deleteBranch") = {}
       /\ (lastCmd[1] = "create" /\ lastErr \in SetupErrors /\ lastCmd' = lastCmd) =>
             /\ lastErr' = "BranchExists"
             /\ CallsOf(log', "addWorktree") = {}
             /\ UNCHANGED <<wtList, branches, fsys>>]_vars

C30_Witness ==
    /\ lastCmd[1] = "create"
    /\ lastErr = "BranchExists"
    /\ WtDir(lastCmd[2]) \in DOMAIN fsys
    /\ \E i \in 2..Len(wtList) : wtList[i] = WtDir(lastCmd[2])
    /\ Len(conf.portMappings) > 0
    /\ SetupIncomplete(lastCmd[2])

(***************************************************************************)
(* Configuration parsing (ConfigLoader).  The text of .wt.conf is a        *)
(* sequence of lines: comments, KEY=value scalars and KEY=( ... ) blocks,  *)
(* a block being given with the lines between its parentheses.  The value  *)
(* of a scalar and the number of a port item are sequences of characters.  *)
(***************************************************************************)
Digits == <<"0", "1", "2", "3", "4", "5", "6", "7", "8", "9">>

IsDigit(c) == \E i \in 1..Len(Digits) : Digits[i] = c

DigitValue(c) == (CHOOSE i \in 1..Len(Digits) : Digits[i] = c) - 1

RECURSIVE skipWhitespace(_)
skipWhitespace(chars) ==
    IF chars # <<>> /\ Head(chars) = " " THEN skipWhitespace(Tail(chars)) ELSE chars

RECURSIVE leadingDigits(_, _)
leadingDigits(chars, acc) ==
    IF chars = <<>> \/ ~IsDigit(Head(chars)) THEN acc
    ELSE leadingDigits(Tail(chars), acc * 10 + DigitValue(Head(chars)))

\* mutant: a strict parse, NaN unless the whole value is an integer
parseInt_strict(chars) ==
    LET body == IF chars # <<>> /\ Head(chars) \in {"-", "+"} THEN Tail(chars) ELSE chars
    IN IF body = <<>> \/ \E i \in 1..Len(body) : ~IsDigit(body[i])
       THEN NaN
       ELSE Num((IF Head(chars) = "-" THEN -1 ELSE 1) * leadingDigits(body, 0))

\* parseInt(value, 10): leading whitespace, a sign, then the digits up to the
\* first character that is not one; NaN when there is no digit
parseInt(chars) ==
    LET s == skipWhitespace(chars)
        signed == s # <<>> /\ Head(s) \in {"-", "+"}
        body == IF signed THEN Tail(s) ELSE s
    IN IF body = <<>> \/ ~IsDigit(Head(body))
       THEN NaN
       ELSE Num((IF signed /\ Head(s) = "-" THEN -1 ELSE 1) * leadingDigits(body, 0))

Uppers == <<"A", "E", "F", "L", "N", "O", "R", "S", "T", "U", "Y">>

Lowers == <<"a", "e", "f", "l", "n", "o", "r", "s", "t", "u", "y">>

\* value.toLowerCase()
toLowerCase(chars) ==
    MapSeq(chars, LAMBDA c :
        IF \E i \in 1..Len(Uppers) : Uppers[i] = c
        THEN Lowers[CHOOSE i \in 1..Len(Uppers) : Uppers[i] = c]
        ELSE c)

FalseWords == {<<"f", "a", "l", "s", "e">>, <<"n", "o">>, <<"0">>}

TrueWords == {<<"t", "r", "u", "e">>, <<"y", "e", "s">>, <<"1">>}

CommentLine == [kind |-> "comment", key |-> "", value |-> <<>>, items |-> <<>>]

ScalarLine(key, value) == [kind |-> "scalar", key |-> key, value |-> value, items |-> <<>>]

BlockLine(key, items) == [kind |-> "block", key |-> key, value |-> <<>>, items |-> items]

\* an item line of a block that is a comment
CommentItem == <<"#">>

\* parseArray(content, varName): the items of the first block of that name
\* in the text, comments left out
parseArray(content, varName) ==
    LET at == {i \in 1..Len(content) :
                  content[i].kind = "block" /\ content[i].key = varName}
    IN IF at = {} THEN <<>>
       ELSE SelectSeq(content[CHOOSE i \in at : \A j \in at : i <= j].items,
                      LAMBDA item : Head(item) # Head(CommentItem))

\* object[key] = value: a key that is there keeps its place
setEntry(entries, entry) ==
    IF \E i \in 1..Len(entries) : entries[i].name = entry.name
    THEN [i \in 1..Len(entries) |->
             IF entries[i].name = entry.name THEN entry ELSE entries[i]]
    ELSE Append(entries, entry)

\* mutant: an item whose number does not parse is left out
RECURSIVE portMappingsLoop_dropsNaN(_, _, _)
portMappingsLoop_dropsNaN(mappings, items, i) ==
    IF i > Len(items) THEN mappings
    ELSE LET mapping == items[i]
         IN portMappingsLoop_dropsNaN(
                IF mapping[1] # "" /\ Len(mapping) >= 2 /\ ~parseInt(mapping[2]).nan
                THEN setEntry(mappings, Mapping(mapping[1], parseInt(mapping[2])))
                ELSE mappings,
                items, i + 1)

\* for (const mapping of mappings): [varName, basePort] = mapping.split(':')
RECURSIVE portMappingsLoop(_, _, _)
portMappingsLoop(mappings, items, i) ==
    IF i > Len(items) THEN mappings
    ELSE LET mapping == items[i]
         IN portMappingsLoop(
                IF mapping[1] # "" /\ Len(mapping) >= 2
                THEN setEntry(mappings, Mapping(mapping[1], parseInt(mapping[2])))
                ELSE mappings,
                items, i + 1)

\* for (const nameMapping of names): [varName, template] = nameMapping.split(':')
RECURSIVE containerItemsLoop(_, _, _)
containerItemsLoop(names, items, i) ==
    IF i > Len(items) THEN names
    ELSE LET nameMapping == items[i]
         IN containerItemsLoop(
                IF nameMapping[1] # "" /\ Len(nameMapping) >= 2 /\ nameMapping[2] # <<>>
                THEN setEntry(names, ContainerName(nameMapping[1], nameMapping[2]))
                ELSE names,
                items, i + 1)

\* one turn of the loop over the lines of the text
parseLine(config, content, line) ==
    CASE line.kind = "scalar" /\ line.key = "START_CONTAINERS" ->
            LET value == toLowerCase(line.value)
            IN IF value \in FalseWords THEN [config EXCEPT !.startContainers = FALSE]
               ELSE IF value \in TrueWords THEN [config EXCEPT !.startContainers = TRUE]
               ELSE config
      [] line.kind = "scalar" /\ line.key = "PORT_OFFSET_INCREMENT" ->
            LET value == parseInt(line.value)
            IN IF ~value.nan THEN [config EXCEPT !.portOffsetIncrement = value.n]
               ELSE config
      [] line.kind = "block" /\ line.key = "PORT_MAPPINGS" ->
            [config EXCEPT !.portMappings =
                portMappingsLoop(@, parseArray(content, "PORT_MAPPINGS"), 1)]
      [] line.kind = "block" /\ line.key = "CONTAINER_NAMES" ->
            [config EXCEPT !.containerNames =
                containerItemsLoop(@, parseArray(content, "CONTAINER_NAMES"), 1)]
      [] line.kind = "block" /\ line.key = "ENV_FILES" ->
            [config EXCEPT !.envFiles =
                MapSeq(parseArray(content, "ENV_FILES"), Head)]
      [] line.kind = "block" /\ line.key = "FILE_UPDATES" ->
            [config EXCEPT !.fileUpdates =
                @ \o parseFileUpdates(parseArray(content, "FILE_UPDATES"))]
      [] OTHER -> config

RECURSIVE parseLoop(_, _, _)
parseLoop(config, content, i) ==
    IF i > Len(content) THEN config
    ELSE parseLoop(parseLine(config, content, content[i]), content, i + 1)

\* parseConfig(content): the defaults, then every line in turn
parseConfig(content) == parseLoop(loadDefaultConfig, content, 1)

NoConf == [exists |-> FALSE, lines |-> <<>>]

ConfOf(content) == [exists |-> TRUE, lines |-> content]

\* loadConfig() of a loader that holds config, .wt.conf being file
loadConfig(config, file) ==
    IF file.exists THEN parseConfig(file.lines) ELSE config

(***************************************************************************)
(* SpecParse: one process constructs its ConfigLoader and loads .wt.conf.  *)
(***************************************************************************)
MaxConfLines == 2

\* true, False, YES, no, 1, 0, x and the empty value
StartValues ==
    << <<"t", "r", "u", "e">>, <<"F", "a", "l", "s", "e">>, <<"Y", "E", "S">>,
       <<"n", "o">>, <<"1">>, <<"0">>, <<"x">>, <<>> >>

\* 20, 0, -5, x, 5x, 1.5, ' 7' and the empty value
IncrementValues ==
    << <<"2", "0">>, <<"0">>, <<"-", "5">>, <<"x">>, <<"5", "x">>,
       <<"1", ".", "5">>, <<" ", "7">>, <<>> >>

\* the block of the test 'should handle malformed port mappings gracefully'
PortItemsMalformed ==
    <<<<"API_PORT", <<"3", "0", "0", "0">>>>, <<"INVALID_FORMAT">>, CommentItem,
      <<"CLIENT_PORT", <<"x">>>>, <<"", <<"3", "0", "0", "2">>>>,
      <<"ADMIN_PORT", <<>>>>>>

PortItemsTwice ==
    <<<<"API_PORT", <<"3", "0", "0", "0">>>>, <<"ZERO_PORT", <<"0">>>>,
      <<"API_PORT", <<"3", "0", "0", "1", "x">>>>>>

\* "DB_CONTAINER:myapp-{{WORKTREE_NAME}}-db", "EMPTY:", "NOCOLON" and
\* "DB_URL:db:5432-{{WORKTREE_NAME}}", each cut at its colons
ContainerItems ==
    <<<<"DB_CONTAINER", <<"myapp-", PhName, "-db">>>>, <<"EMPTY", <<>>>>,
      <<"NOCOLON">>, <<"DB_URL", <<"db">>, <<"5432-", PhName>>>>>>

\* the last two: "config/app.env|append|port:{{API_PORT}}" and
\* ".env|env_vars|API_PORT|extra"
FileUpdateItems ==
    <<ItemShort, ItemReplace3, ItemEnvApp,
      <<AppPath, "replace", <<"HOST">>, <<"host-", PhName>>>>,
      <<AppPath, "append", <<"port:", PhPort("API_PORT")>>>>,
      <<EnvPath, "env_vars", <<"API_PORT">>, <<"extra">>>>>>

LinePool ==
    [i \in 1..Len(StartValues) |-> ScalarLine("START_CONTAINERS", StartValues[i])]
    \o [i \in 1..Len(IncrementValues) |->
            ScalarLine("PORT_OFFSET_INCREMENT", IncrementValues[i])]
    \o <<CommentLine,
         BlockLine("PORT_MAPPINGS", PortItemsMalformed),
         BlockLine("PORT_MAPPINGS", PortItemsTwice),
         BlockLine("CONTAINER_NAMES", ContainerItems),
         BlockLine("ENV_FILES", <<<<EnvPath>>, <<AppPath>>>>),
         BlockLine("FILE_UPDATES", FileUpdateItems)>>

InitParse ==
    /\ conf = loadDefaultConfig
    /\ wtList = <<ProjectName>>
    /\ branches = {MainBranch}
    /\ fsys = [w \in {ProjectName} |-> EmptyDir]
    /\ log = <<>>
    /\ lastErr = ""
    /\ lastCmd = <<"none">>
    /\ runs = <<>>

\* await this.config.loadConfig(), once in the life of the process
LoadConfig(file) ==
    /\ lastCmd = <<"none">>
    /\ conf' = loadConfig(conf, file)
    /\ lastCmd' = <<"loadConfig", file>>
    /\ log' = <<Call("loadConfig", "")>>
    /\ UNCHANGED <<wtList, branches, fsys, lastErr, runs>>

NextParse ==
    \/ LoadConfig(NoConf)
    \/ \E n \in 0..MaxConfLines :
           \E f \in [1..n -> 1..Len(LinePool)] :
               LoadConfig(ConfOf([i \in 1..n |-> LinePool[f[i]]]))

SpecParse == InitParse /\ [][NextParse]_vars

(***************************************************************************)
(* Properties of SpecParse.                                                *)
(***************************************************************************)
Loaded == lastCmd[1] = "loadConfig"

ConfText == IF lastCmd[2].exists THEN lastCmd[2].lines ELSE <<>>

ScalarLines(key) ==
    {i \in 1..Len(ConfText) : ConfText[i].kind = "scalar" /\ ConfText[i].key = key}

BlockLines(key) ==
    {i \in 1..Len(ConfText) : ConfText[i].kind = "block" /\ ConfText[i].key = key}

Last(S) == CHOOSE i \in S : \A j \in S : j <= i

SameIgnoringCase(value, word) ==
    /\ Len(value) = Len(word)
    /\ \A i \in 1..Len(word) :
           \/ value[i] = word[i]
           \/ \E j \in 1..Len(Lowers) : word[i] = Lowers[j] /\ value[i] = Uppers[j]

SaysTrue(value) == \E w \in TrueWords : SameIgnoringCase(value, w)

SaysFalse(value) == \E w \in FalseWords : SameIgnoringCase(value, w)

\* true, or what the last START_CONTAINERS line with a recognised word says
ExpectedStartContainers ==
    LET said == {i \in ScalarLines("START_CONTAINERS") :
                    SaysTrue(ConfText[i].value) \/ SaysFalse(ConfText[i].value)}
    IN IF said = {} THEN TRUE ELSE SaysTrue(ConfText[Last(said)].value)

RECURSIVE DecimalValue(_)
DecimalValue(digits) ==
    IF digits = <<>> THEN 0
    ELSE 10 * DecimalValue(SubSeq(digits, 1, Len(digits) - 1))
         + DigitValue(digits[Len(digits)])

Unsigned(chars) ==
    IF chars # <<>> /\ chars[1] \in {"-", "+"} THEN Tail(chars) ELSE chars

Signed(chars, n) == IF chars # <<>> /\ chars[1] = "-" THEN 0 - n ELSE n

\* the whole value is a base-10 integer
IsInteger(chars) ==
    /\ Unsigned(chars) # <<>>
    /\ \A i \in 1..Len(Unsigned(chars)) : IsDigit(Unsigned(chars)[i])

IntegerValue(chars) == Signed(chars, DecimalValue(Unsigned(chars)))

Unspaced(chars) ==
    SubSeq(chars,
           CHOOSE k \in 1..(Len(chars) + 1) :
               /\ \A i \in 1..(k - 1) : chars[i] = " "
               /\ (k = Len(chars) + 1 \/ chars[k] # " "),
           Len(chars))

\* the value starts, after blanks and a sign, with a digit
HasLeadingInteger(chars) ==
    Unsigned(Unspaced(chars)) # <<>> /\ IsDigit(Unsigned(Unspaced(chars))[1])

LeadingIntegerValue(chars) ==
    LET body == Unsigned(Unspaced(chars))
        n == CHOOSE n \in 1..Len(body) :
                 /\ \A i \in 1..n : IsDigit(body[i])
                 /\ (n = Len(body) \/ ~IsDigit(body[n + 1]))
    IN Signed(Unspaced(chars), DecimalValue(SubSeq(body, 1, n)))

ExpectedIncrementStrict ==
    LET said == {i \in ScalarLines("PORT_OFFSET_INCREMENT") : IsInteger(ConfText[i].value)}
    IN IF said = {} THEN DefaultIncrement ELSE IntegerValue(ConfText[Last(said)].value)

ExpectedIncrement ==
    LET said == {i \in ScalarLines("PORT_OFFSET_INCREMENT") :
                    HasLeadingInteger(ConfText[i].value)}
    IN IF said = {} THEN DefaultIncrement
       ELSE LeadingIntegerValue(ConfText[Last(said)].value)

DefaultsWhereUnset ==
    /\ ~lastCmd[2].exists => conf = Config(DefaultIncrement, <<>>, <<>>, <<>>)
    /\ BlockLines("PORT_MAPPINGS") = {} => conf.portMappings = <<>>
    /\ BlockLines("CONTAINER_NAMES") = {} => conf.containerNames = <<>>
    /\ BlockLines("ENV_FILES") = {} => conf.envFiles = <<>>
    /\ BlockLines("FILE_UPDATES") = {} => conf.fileUpdates = <<>>

\* C16 as stated: the loaded configuration has the defaults wherever the text
\* sets nothing, startContainers as the last recognised word says (true when
\* there is none) and portOffsetIncrement as the last value that is a
\* base-10 integer says (10 when there is none)
C16_UnrecognisedScalarKeepsDefault ==
    Loaded =>
        /\ DefaultsWhereUnset
        /\ conf.startContainers = ExpectedStartContainers
        /\ conf.portOffsetIncrement = ExpectedIncrementStrict

\* C16 amended: the same, with portOffsetIncrement as the last value that
\* starts with a base-10 integer says, the characters after the integer
\* being ignored (10 when no value starts with one)
C16_ScalarWithoutLeadingIntegerKeepsDefault ==
    Loaded =>
        /\ DefaultsWhereUnset
        /\ conf.startContainers = ExpectedStartContainers
        /\ conf.portOffsetIncrement = ExpectedIncrement

C16_Witness ==
    /\ Loaded
    /\ Len(ConfText) = 2
    /\ ConfText[1] = ScalarLine("START_CONTAINERS", StartValues[2])
    /\ ConfText[2] = ScalarLine("PORT_OFFSET_INCREMENT", IncrementValues[4])
    /\ ~conf.startContainers
    /\ conf.portOffsetIncrement = DefaultIncrement

\* C17: the loaded configuration has a portOffsetIncrement greater than 0
C17_IncrementIsPositive == conf.portOffsetIncrement > 0

\* the items of the PORT_MAPPINGS block that the parser reads
PortItems ==
    IF BlockLines("PORT_MAPPINGS") = {} THEN <<>>
    ELSE LET first == CHOOSE i \in BlockLines("PORT_MAPPINGS") :
                          \A j \in BlockLines("PORT_MAPPINGS") : i <= j
         IN SelectSeq(ConfText[first].items, LAMBDA item : item # CommentItem)

\* items VARNAME:NUMBER, the variable name not being empty
WellFormedPortItems ==
    {i \in 1..Len(PortItems) : Len(PortItems[i]) >= 2 /\ PortItems[i][1] # ""}

ExpectedPort(chars) ==
    IF HasLeadingInteger(chars) THEN Num(LeadingIntegerValue(chars)) ELSE NaN

\* C18: every PORT_MAPPINGS item VARNAME:NUMBER is stored under VARNAME, with
\* not-a-number when NUMBER does not parse (never left out, never 0) and
\* with its number otherwise, the last item of a variable deciding; an item
\* with no colon or with an empty name is not stored
C18_MalformedPortItems ==
    Loaded =>
        /\ \A i \in WellFormedPortItems :
               LET same == {j \in WellFormedPortItems : PortItems[j][1] = PortItems[i][1]}
               IN /\ HasVar(conf.portMappings, PortItems[i][1])
                  /\ PortOf(conf.portMappings, PortItems[i][1])
                         = ExpectedPort(PortItems[Last(same)][2])
        /\ \A k \in 1..Len(conf.portMappings) :
               /\ \E i \in WellFormedPortItems : PortItems[i][1] = conf.portMappings[k].name
               /\ \A l \in 1..Len(conf.portMappings) :
                      conf.portMappings[l].name = conf.portMappings[k].name => l = k

C18_Witness ==
    /\ Loaded
    /\ \E i \in 1..Len(PortItems) : Len(PortItems[i]) = 1
    /\ \E i \in 1..Len(PortItems) : Len(PortItems[i]) >= 2 /\ PortItems[i][1] = ""
    /\ \E k \in 1..Len(conf.portMappings) : conf.portMappings[k].port = NaN
    /\ \E k \in 1..Len(conf.portMappings) : conf.portMappings[k].port = Num(BaseApi)
    /\ Len(conf.portMappings) = 3

\* the items of the CONTAINER_NAMES block the parser reads, the first one
NameItems ==
    IF BlockLines("CONTAINER_NAMES") = {} THEN <<>>
    ELSE LET first == CHOOSE i \in BlockLines("CONTAINER_NAMES") :
                          \A j \in BlockLines("CONTAINER_NAMES") : i <= j
         IN SelectSeq(ConfText[first].items, LAMBDA item : item # CommentItem)

\* the text of an item after its first colon: its fields from the second
\* on, with the colons that stood between them
RECURSIVE AfterFirstColon(_, _)
AfterFirstColon(item, i) ==
    IF i > Len(item) THEN <<>>
    ELSE IF i = Len(item) THEN item[i]
    ELSE item[i] \o <<":">> \o AfterFirstColon(item, i + 1)

\* C25: a CONTAINER_NAMES item with a name and a template is stored under
\* the text before its first colon, with all of the text after that colon,
\* further colons included, as its template
C25_SplitAtFirstColon ==
    Loaded =>
        \A i \in 1..Len(NameItems) :
            LET item == NameItems[i] IN
            (Len(item) >= 2 /\ item[1] # "" /\ item[2] # <<>>) =>
                \E j \in 1..Len(conf.containerNames) :
                    /\ conf.containerNames[j].name = item[1]
                    /\ conf.containerNames[j].template = AfterFirstColon(item, 2)

\* the same for the items with one colon
OneColonItemIsStoredWhole ==
    Loaded =>
        \A i \in 1..Len(NameItems) :
            LET item == NameItems[i] IN
            (Len(item) = 2 /\ item[1] # "" /\ item[2] # <<>>) =>
                \E j \in 1..Len(conf.containerNames) :
                    /\ conf.containerNames[j].name = item[1]
                    /\ conf.containerNames[j].template = item[2]

\* the items of the FILE_UPDATES block the parser reads, the first one
FileItems ==
    IF BlockLines("FILE_UPDATES") = {} THEN <<>>
    ELSE LET first == CHOOSE i \in BlockLines("FILE_UPDATES") :
                          \A j \in BlockLines("FILE_UPDATES") : i <= j
         IN SelectSeq(ConfText[first].items, LAMBDA item : Head(item) # Head(CommentItem))

\* the positions in FileItems of the items with three fields or more
StoredItems == SelectSeq([i \in 1..Len(FileItems) |-> i],
                         LAMBDA i : Len(FileItems[i]) >= 3)

\* parseConfig appends the rules of the block once for every FILE_UPDATES=(
\* line of the text
RECURSIVE Repeated(_, _)
Repeated(rules, n) == IF n = 0 THEN <<>> ELSE rules \o Repeated(rules, n - 1)

\* C26: the stored rules are those of the items with at least three
\* pipe-separated fields, in the order of the file; path|replace|pattern|
\* replacement is stored with searchPattern = field 3, replacement = field 4
\* and spec = field 4, every other item with spec = field 3 and neither a
\* searchPattern nor a replacement
C26_FileUpdateItems ==
    Loaded =>
        /\ Len(conf.fileUpdates)
               = Len(StoredItems) * Cardinality(BlockLines("FILE_UPDATES"))
        /\ conf.fileUpdates
               = Repeated(SubSeq(conf.fileUpdates, 1, Len(StoredItems)),
                          Cardinality(BlockLines("FILE_UPDATES")))
        /\ BlockLines("FILE_UPDATES") # {} =>
               \A k \in 1..Len(StoredItems) :
                   LET item == FileItems[StoredItems[k]]
                       rule == conf.fileUpdates[k]
                   IN /\ rule.filePath = item[1]
                      /\ rule.updateType = item[2]
                      /\ IF item[2] = "replace" /\ Len(item) >= 4
                         THEN /\ rule.searchPattern = Present(item[3])
                              /\ rule.replacement = Present(item[4])
                              /\ rule.spec = item[4]
                         ELSE /\ rule.spec = item[3]
                              /\ ~rule.searchPattern.has
                              /\ ~rule.replacement.has

C26_Witness ==
    /\ Loaded
    /\ Cardinality(BlockLines("FILE_UPDATES")) = 1
    /\ \E i \in 1..Len(FileItems) : Len(FileItems[i]) < 3
    /\ \E k \in 1..Len(conf.fileUpdates) :
           conf.fileUpdates[k].updateType = "replace" /\ conf.fileUpdates[k].searchPattern.has
    /\ \E k \in 1..Len(conf.fileUpdates) : conf.fileUpdates[k].updateType = "env_vars"
    /\ \E k \in 1..Len(conf.fileUpdates) : conf.fileUpdates[k].updateType = "append"
    /\ Len(conf.fileUpdates) = 5

====
